---- MODULE Spec2Model ----
(***************************************************************************)
(* Chat-Apple-Quality: the question-answering core of the two renderers    *)
(* (src/src/renderer/renderer.js, the two-tier renderer, and               *)
(* src/unnamed/part_001, the public renderer with model metrics).          *)
(*                                                                         *)
(* JavaScript strings are TLA+ strings (TLC evaluates Len, SubSeq and \o   *)
(* on them), so substring tests, case mapping, trimming, splitting and the *)
(* regular expressions are computed character by character.                *)
(* JavaScript numbers are fixed-point integers in tenths; the              *)
(* strings of the pools carry at most one fractional digit.                *)
(* Definitions of the public renderer that share a name with one of the    *)
(* two-tier renderer carry the suffix _p.                                  *)
(* Texts kept in the variables (questions typed, template names, messages) *)
(* are written without diacritics; the keyword lists and the regular       *)
(* expressions keep the accented letters of the code.                      *)
(***************************************************************************)
EXTENDS Integers, Sequences, FiniteSets, TLC

\* ------------------------------------------------------------------------
\* Bounds of the model
\* ------------------------------------------------------------------------
\* longest dataset drawn (rows)
MaxRows == 7
\* most fragments joined into one question
MaxFrags == 2
\* most texts sent to the 'nlp-process' handler
MaxTexts == 2

\* ------------------------------------------------------------------------
\* JavaScript values
\* ------------------------------------------------------------------------
\* a number is held in tenths: Num(15) is 1.5
Num(n) == [t |-> "num", n |-> n, s |-> ""]
NaN == [t |-> "nan", n |-> 0, s |-> ""]
Str(s) == [t |-> "str", n |-> 0, s |-> s]
Undefined == [t |-> "undef", n |-> 0, s |-> ""]
Null == [t |-> "null", n |-> 0, s |-> ""]

\* typeof v === 'number' (NaN is a number)
IsNumberType(v) == v.t \in {"num", "nan"}

\* ------------------------------------------------------------------------
\* String primitives
\* ------------------------------------------------------------------------
charAt(s, i) == IF i >= 1 /\ i <= Len(s) THEN SubSeq(s, i, i) ELSE ""

\* String.prototype.includes
includes(s, k) ==
    \E i \in 1..(Len(s) - Len(k) + 1) : SubSeq(s, i, i + Len(k) - 1) = k

\* k occurs in s starting at position i
startsAt(s, k, i) ==
    i >= 1 /\ i + Len(k) - 1 <= Len(s) /\ SubSeq(s, i, i + Len(k) - 1) = k

UpperChars == "ABCDEFGHIJKLMNOPQRSTUVWXYZÁÉÍÓÚÃÕÇ"
LowerChars == "abcdefghijklmnopqrstuvwxyzáéíóúãõç"

lowerChar(c) ==
    IF \E i \in 1..Len(UpperChars) : SubSeq(UpperChars, i, i) = c
    THEN LET i == CHOOSE j \in 1..Len(UpperChars) : SubSeq(UpperChars, j, j) = c
         IN SubSeq(LowerChars, i, i)
    ELSE c

upperChar(c) ==
    IF \E i \in 1..Len(LowerChars) : SubSeq(LowerChars, i, i) = c
    THEN LET i == CHOOSE j \in 1..Len(LowerChars) : SubSeq(LowerChars, j, j) = c
         IN SubSeq(UpperChars, i, i)
    ELSE c

RECURSIVE toLowerCase(_)
toLowerCase(s) ==
    IF Len(s) = 0 THEN ""
    ELSE lowerChar(SubSeq(s, 1, 1)) \o toLowerCase(SubSeq(s, 2, Len(s)))

\* \s of the regular expressions, and the blanks trim() removes
IsSpace(c) == c = " "

\* \w and the word side of \b: ASCII letters, digits and underscore only
\* (no u flag: an accented letter is not a word character)
WordChars == "abcdefghijklmnopqrstuvwxyzABCDEFGHIJKLMNOPQRSTUVWXYZ0123456789_"
IsWordChar(c) == Len(c) = 1 /\ includes(WordChars, c)

\* \b between positions i-1 and i of s
wordBoundary(s, i) == IsWordChar(charAt(s, i - 1)) # IsWordChar(charAt(s, i))

IsDigit(c) == Len(c) = 1 /\ includes("0123456789", c)
digitVal(c) == (CHOOSE j \in 1..10 : SubSeq("0123456789", j, j) = c) - 1

RECURSIVE trimStart(_)
trimStart(s) ==
    IF Len(s) > 0 /\ IsSpace(SubSeq(s, 1, 1)) THEN trimStart(SubSeq(s, 2, Len(s)))
    ELSE s

RECURSIVE trimEnd(_)
trimEnd(s) ==
    IF Len(s) > 0 /\ IsSpace(SubSeq(s, Len(s), Len(s)))
    THEN trimEnd(SubSeq(s, 1, Len(s) - 1))
    ELSE s

trim(s) == trimEnd(trimStart(s))

\* first position >= i of s that holds a blank, Len(s)+1 if none
RECURSIVE nextSpace(_, _)
nextSpace(s, i) ==
    IF i > Len(s) \/ IsSpace(SubSeq(s, i, i)) THEN i ELSE nextSpace(s, i + 1)

\* first position >= i of s that holds no blank, Len(s)+1 if none
RECURSIVE skipSpaces(_, _)
skipSpaces(s, i) ==
    IF i > Len(s) \/ ~IsSpace(SubSeq(s, i, i)) THEN i ELSE skipSpaces(s, i + 1)

\* s.split(/\s+/): a leading or trailing blank run yields an empty first or
\* last element, as in JavaScript
RECURSIVE splitFrom(_, _)
splitFrom(s, i) ==
    LET e == nextSpace(s, i)
    IN  IF e > Len(s) THEN << SubSeq(s, i, Len(s)) >>
        ELSE << SubSeq(s, i, e - 1) >> \o splitFrom(s, skipSpaces(s, e))

split(s) == splitFrom(s, 1)

\* ucfirst of both renderers (renderer.js returns a falsy s unchanged; the
\* public one yields '' for '')
ucfirst(s) == IF Len(s) = 0 THEN s ELSE upperChar(SubSeq(s, 1, 1)) \o SubSeq(s, 2, Len(s))

\* ------------------------------------------------------------------------
\* Numbers in text
\* ------------------------------------------------------------------------
\* first position >= i of s that holds no decimal digit
RECURSIVE digitsEnd(_, _)
digitsEnd(s, i) ==
    IF i > Len(s) \/ ~IsDigit(SubSeq(s, i, i)) THEN i ELSE digitsEnd(s, i + 1)

\* value of the decimal digits s[i..j-1] (0 for none)
RECURSIVE natVal(_, _, _)
natVal(s, i, j) ==
    IF j <= i THEN 0 ELSE 10 * natVal(s, i, j - 1) + digitVal(SubSeq(s, j - 1, j - 1))

\* parseFloat of a string: leading blanks, a sign, digits, a dot, digits; the
\* longest such prefix is the number and the rest is ignored; NaN when the
\* prefix holds no digit. The result is in tenths (first fractional digit).
parseFloatStr(s) ==
    LET p0 == skipSpaces(s, 1)
        neg == charAt(s, p0) = "-"
        p1 == IF charAt(s, p0) \in {"-", "+"} THEN p0 + 1 ELSE p0
        p2 == digitsEnd(s, p1)
        dot == charAt(s, p2) = "."
        p3 == IF dot THEN digitsEnd(s, p2 + 1) ELSE p2
        frac == IF dot /\ p3 > p2 + 1 THEN digitVal(SubSeq(s, p2 + 1, p2 + 1)) ELSE 0
        mag == 10 * natVal(s, p1, p2) + frac
    IN  IF p2 = p1 /\ (~dot \/ p3 = p2 + 1) THEN NaN
        ELSE Num(IF neg THEN -mag ELSE mag)

\* parseInt(s, 10) of a string of the regular expression's (\d+) group or of a
\* keyword: NaN when it does not start with a digit. The result is a count,
\* not tenths.
parseIntStr(s) ==
    LET p0 == skipSpaces(s, 1)
        p2 == digitsEnd(s, p0)
    IN  IF p2 = p0 THEN NaN ELSE Num(natVal(s, p0, p2))

\* decimal text of a natural number
RECURSIVE natToStr(_)
natToStr(n) ==
    IF n < 10 THEN SubSeq("0123456789", n + 1, n + 1)
    ELSE natToStr(n \div 10) \o SubSeq("0123456789", (n % 10) + 1, (n % 10) + 1)

\* String(v): the text JavaScript gives a value
String(v) ==
    CASE v.t = "str" -> v.s
      [] v.t = "nan" -> "NaN"
      [] v.t = "undef" -> "undefined"
      [] v.t = "null" -> "null"
      [] v.t = "num" ->
           LET a == IF v.n < 0 THEN -v.n ELSE v.n
               body == natToStr(a \div 10) \o
                       (IF a % 10 = 0 THEN "" ELSE "." \o natToStr(a % 10))
           IN  IF v.n < 0 THEN "-" \o body ELSE body

\* parseFloat(v) of any value: a number is itself, anything else goes through
\* its text
parseFloat(v) == IF IsNumberType(v) THEN v ELSE parseFloatStr(String(v))

\* isNaN(parseFloat(v))
IsNaN(x) == x.t = "nan"

\* the comparisons of JavaScript numbers: every comparison with NaN is false
Compare(x, op, y) ==
    /\ x.t = "num" /\ y.t = "num"
    /\ CASE op = ">" -> x.n > y.n
         [] op = "<" -> x.n < y.n
         [] op = ">=" -> x.n >= y.n
         [] op = "<=" -> x.n <= y.n
         [] op = "=" -> x.n = y.n
         [] OTHER -> FALSE

\* ------------------------------------------------------------------------
\* Sequences and records (rows)
\* ------------------------------------------------------------------------
Min(a, b) == IF a < b THEN a ELSE b
Max(a, b) == IF a > b THEN a ELSE b

\* Array.prototype.includes
seqIncludes(s, x) == \E i \in 1..Len(s) : s[i] = x

\* Array.prototype.slice(0, n)
sliceTo(s, n) == SubSeq(s, 1, Min(Max(n, 0), Len(s)))

\* A record of the dataset is the sequence of its (key, value) entries in
\* insertion order, which is the order Object.keys and Object.entries give.
Entry(k, v) == [k |-> k, v |-> v]

\* Object.keys(r)
Keys(r) == [i \in 1..Len(r) |-> r[i].k]

\* r[c]: undefined for a missing key
Get(r, c) ==
    IF \E i \in 1..Len(r) : r[i].k = c
    THEN r[CHOOSE i \in 1..Len(r) : r[i].k = c].v
    ELSE Undefined

\* ------------------------------------------------------------------------
\* renderer.js: dataset structures
\* ------------------------------------------------------------------------
\* rows sampled to decide whether a column is numeric
SampleRows == 20
\* rows shown by a filter answer
FilterSample == 6
\* rows listed by a top-n question that names no count
DefaultTopN == 5

COL_ALIASES ==
    { <<"tamanho", "Size">>, <<"size", "Size">>, <<"peso", "Weight">>,
      <<"weight", "Weight">>, <<"doce", "Sweetness">>, <<"doçura", "Sweetness">>,
      <<"sweetness", "Sweetness">>, <<"crocancia", "Crunchiness">>,
      <<"crocância", "Crunchiness">>, <<"crunchiness", "Crunchiness">>,
      <<"suculencia", "Juiciness">>, <<"suculência", "Juiciness">>,
      <<"juiciness", "Juiciness">>, <<"maturacao", "Ripeness">>,
      <<"maturação", "Ripeness">>, <<"ripeness", "Ripeness">>,
      <<"acidez", "Acidity">>, <<"acidity", "Acidity">>,
      <<"qualidade", "Quality">>, <<"quality", "Quality">> }

\* COL_ALIASES[raw] || ucfirst(raw)
resolveColumn(raw) ==
    IF \E p \in COL_ALIASES : p[1] = raw
    THEN (CHOOSE p \in COL_ALIASES : p[1] = raw)[2]
    ELSE ucfirst(raw)

\* the numeric test of one column c over the first SampleRows rows
isNumericColumn(data, c) ==
    LET rows == sliceTo(data, SampleRows)
        sample == { i \in 1..Len(rows) : Get(rows[i], c).t \notin {"null", "undef"} }
        numCount == Cardinality({ i \in sample :
                        \/ IsNumberType(Get(rows[i], c))
                        \/ ~IsNaN(parseFloatStr(String(Get(rows[i], c)))) })
    IN  numCount >= Max(1, (Cardinality(sample) * 6) \div 10)

\* initDatasetStructures(arr): the values DATA, COLUMNS, NUMERIC_COLS and
\* LABEL_COL are left with
initDatasetStructures(arr) ==
    LET cols == IF Len(arr) > 0 THEN Keys(arr[1]) ELSE << >>
    IN  [ DATA |-> arr,
          COLUMNS |-> cols,
          NUMERIC_COLS |-> SelectSeq(cols, LAMBDA c : isNumericColumn(arr, c)),
          LABEL_COL |-> "Quality" ]

\* ------------------------------------------------------------------------
\* renderer.js: statistics
\* ------------------------------------------------------------------------
\* the parseable numbers among values, in tenths
validNums(values) ==
    SelectSeq([i \in 1..Len(values) |-> parseFloat(values[i])], LAMBDA x : ~IsNaN(x))

RECURSIVE sumSeq(_)
sumSeq(nums) == IF Len(nums) = 0 THEN 0 ELSE nums[1].n + sumSeq(Tail(nums))

RECURSIVE sumSqSeq(_)
sumSqSeq(nums) ==
    IF Len(nums) = 0 THEN 0 ELSE nums[1].n * nums[1].n + sumSqSeq(Tail(nums))

\* mean(values): null for no valid number, else the exact quotient sum / count
\* (sum in tenths)
mean(values) ==
    LET nums == validNums(values)
    IN  IF Len(nums) = 0 THEN [t |-> "null", num |-> 0, den |-> 1]
        ELSE [t |-> "ratio", num |-> sumSeq(nums), den |-> Len(nums)]

\* std(values): null for no valid number, else the square root of the exact
\* population variance (count * sum of squares - square of sum) / count^2
std(values) ==
    LET nums == validNums(values)
        n == Len(nums)
    IN  IF mean(values).t = "null" THEN [t |-> "null", num |-> 0, den |-> 1]
        ELSE [t |-> "sqrt", num |-> n * sumSqSeq(nums) - sumSeq(nums) * sumSeq(nums),
              den |-> n * n]

\* round(v, 4) of a mean or deviation: null stays null; a quotient in tenths
\* becomes the nearest multiple of 0.0001 (Math.round: halves go up); the
\* root is kept exact
round4(m) ==
    IF m.t = "ratio"
    THEN [t |-> "e4", num |-> (2 * 1000 * m.num + m.den) \div (2 * m.den), den |-> 1]
    ELSE m

\* ------------------------------------------------------------------------
\* State
\* ------------------------------------------------------------------------
VARIABLES
    \* renderer.js: the globals. DATA is [isNull, rows]: null until loaded.
    DATA, COLUMNS, NUMERIC_COLS, LABEL_COL,
    \* renderer.js: position of the DOMContentLoaded handler
    loadPc,
    \* renderer.js: the sendMessage executions, one per entry point
    calls,
    \* renderer.js: the #typing element exists; sendBtn.disabled
    typing, sendDisabled,
    \* public renderer (part_001): the globals
    DATA_p, COLUMNS_p, NUMERIC_COLS_p, MODEL_METRICS,
    \* public renderer: positions of the DOMContentLoaded handler and of the
    \* run-pipeline click handler
    startPc, pipePc,
    \* history: the globals of the public renderer as they were when the
    \* pipeline button was last clicked, kept from a click made after the
    \* startup handler has ended until a reload completes
    held,
    \* main process: a saved model exists on disk, for predict.js and for
    \* nlp/index.js
    modelOnDisk,
    \* main process (predict.js, main.js): position of the module, the texts
    \* the 'nlp-process' handler has taken and those it still awaits
    mainPc, handled, nlpPending,
    \* nlp/index.js: manager, and the processText calls, one per caller
    manager, texts,
    \* history: the times a saved model was loaded (per module) and the times
    \* manager.train() was called
    loads, trainings,
    \* electron_main.js: the executions of the 'run-pipeline' handler
    runs,
    \* main.js: preprocessCache, the processed JSON file exists on disk, the
    \* calls of ensurePreprocessedData (one per caller) and the
    \* preprocessing.py children that are running
    preprocessCache, jsonOnDisk, ensures, pythons,
    \* the question last put to an answer function (parts: the fragments it
    \* was typed from), the reply it got, and the step that was last taken
    parts, question, reply, pc

vars == << DATA, COLUMNS, NUMERIC_COLS, LABEL_COL, loadPc, calls, typing, sendDisabled,
           DATA_p, COLUMNS_p, NUMERIC_COLS_p, MODEL_METRICS, startPc, pipePc, held,
           modelOnDisk, mainPc, handled, nlpPending, manager, texts, loads, trainings,
           runs, preprocessCache, jsonOnDisk, ensures, pythons,
           parts, question, reply, pc >>

twoTierVars == << DATA, COLUMNS, NUMERIC_COLS, LABEL_COL, loadPc, calls, typing, sendDisabled >>
publicVars == << DATA_p, COLUMNS_p, NUMERIC_COLS_p, MODEL_METRICS, startPc, pipePc, held >>
nlpVars == << modelOnDisk, mainPc, handled, nlpPending, manager, texts, loads, trainings >>
pipelineVars == << runs >>
preprocessVars == << preprocessCache, jsonOnDisk, ensures, pythons >>
mainVars == << nlpVars, pipelineVars, preprocessVars >>
rendererVars == << twoTierVars, publicVars, parts, question, reply, pc >>

NullData == [isNull |-> TRUE, rows |-> << >>]
Loaded(rows) == [isNull |-> FALSE, rows |-> rows]

\* ------------------------------------------------------------------------
\* renderer.js: the regular expressions of answerFromData
\* ------------------------------------------------------------------------
\* some keyword of kws stands at position i of q between two \b
keywordAt(q, kws, i) ==
    \E n \in 1..Len(kws) :
        startsAt(q, kws[n], i) /\ wordBoundary(q, i) /\ wordBoundary(q, i + Len(kws[n]))

\* the keyword standing there (the alternation's first that fits)
keywordOf(q, kws, i) ==
    kws[CHOOSE n \in 1..Len(kws) :
            /\ startsAt(q, kws[n], i) /\ wordBoundary(q, i)
            /\ wordBoundary(q, i + Len(kws[n]))
            /\ \A m \in 1..(n - 1) :
                 ~(startsAt(q, kws[m], i) /\ wordBoundary(q, i + Len(kws[m])))]

\* \b<w>\s+([^\?]+) tried at position k: where the group starts, 0 for no
\* match. \s+ takes the whole blank run; when what follows is '?' or the end,
\* it gives back its last blank to the group, if it has two.
groupStart(q, w, k) ==
    IF ~(wordBoundary(q, k) /\ startsAt(q, w, k) /\ IsSpace(charAt(q, k + Len(w))))
    THEN 0
    ELSE LET m == skipSpaces(q, k + Len(w))
         IN  IF m <= Len(q) /\ charAt(q, m) # "?" THEN m
             ELSE IF m - (k + Len(w)) >= 2 THEN m - 1 ELSE 0

\* end of the group [^\?]+ that starts at g: up to the next '?' or the end
RECURSIVE groupEnd(_, _)
groupEnd(q, g) == IF g > Len(q) \/ charAt(q, g) = "?" THEN g ELSE groupEnd(q, g + 1)

\* .*\b<w>\s+([^\?]+) : the greedy .* stops at the last place the tail fits
lastTail(q, w) ==
    LET ks == { k \in 1..Len(q) : groupStart(q, w, k) > 0 }
    IN  IF ks = {} THEN 0 ELSE CHOOSE k \in ks : \A j \in ks : j <= k

tailGroup(q, w) ==
    LET g == groupStart(q, w, lastTail(q, w))
    IN  SubSeq(q, g, groupEnd(q, g) - 1)

NoMatch == [ok |-> FALSE, g1 |-> "", g2 |-> ""]

MeanKeywords == << "média", "media", "médias", "average" >>

\* q.match(/\b(média|media|médias|average)\b.*\bde\s+([^\?]+)/)
mMatch(q) ==
    LET k == lastTail(q, "de")
        starts == { i \in 1..Len(q) :
                      /\ keywordAt(q, MeanKeywords, i)
                      /\ i + Len(keywordOf(q, MeanKeywords, i)) <= k }
    IN  IF k = 0 \/ starts = {} THEN NoMatch
        ELSE LET i == CHOOSE x \in starts : \A y \in starts : x <= y
             IN  [ok |-> TRUE, g1 |-> keywordOf(q, MeanKeywords, i),
                  g2 |-> tailGroup(q, "de")]

\* \btop\s*(\d+)\b at position i: the end of the digits, 0 for no match
topDigitsEnd(q, i) ==
    IF ~(wordBoundary(q, i) /\ startsAt(q, "top", i)) THEN 0
    ELSE LET j == skipSpaces(q, i + 3)
             e == digitsEnd(q, j)
         IN  IF e > j /\ wordBoundary(q, e) THEN e ELSE 0

TopKeywords == << "maiores", "melhores", "top" >>

\* q.match(/\btop\s*(\d+)\b.*\bpor\s+([^\?]+)/) ||
\* q.match(/\b(maiores|melhores|top)\b.*\bpor\s+([^\?]+)/)
topMatch(q) ==
    LET k == lastTail(q, "por")
        numbered == { i \in 1..Len(q) : topDigitsEnd(q, i) > 0 /\ topDigitsEnd(q, i) <= k }
        worded == { i \in 1..Len(q) :
                      /\ keywordAt(q, TopKeywords, i)
                      /\ i + Len(keywordOf(q, TopKeywords, i)) <= k }
    IN  IF k = 0 THEN NoMatch
        ELSE IF numbered # {}
        THEN LET i == CHOOSE x \in numbered : \A y \in numbered : x <= y
             IN  [ok |-> TRUE,
                  g1 |-> SubSeq(q, skipSpaces(q, i + 3), topDigitsEnd(q, i) - 1),
                  g2 |-> tailGroup(q, "por")]
        ELSE IF worded # {}
        THEN LET i == CHOOSE x \in worded : \A y \in worded : x <= y
             IN  [ok |-> TRUE, g1 |-> keywordOf(q, TopKeywords, i),
                  g2 |-> tailGroup(q, "por")]
        ELSE NoMatch

FilterKeywords ==
    << "tamanho", "size", "peso", "weight", "doce", "doçura", "sweetness",
       "crocancia", "crocância", "crunchiness", "suculencia", "suculência",
       "juiciness", "maturacao", "maturação", "ripeness", "acidez", "acidity" >>

\* (>=|<=|>|<|=) in the alternation's order
FilterOps == << ">=", "<=", ">", "<", "=" >>

IsNumChar(c) == Len(c) = 1 /\ includes("0123456789.,-", c)

\* first position >= i of q that holds no character of [0-9\.,-]
RECURSIVE numCharsEnd(_, _)
numCharsEnd(q, i) ==
    IF i > Len(q) \/ ~IsNumChar(charAt(q, i)) THEN i ELSE numCharsEnd(q, i + 1)

\* (op)\s*([0-9\.,-]+) fits at position j with the n-th operator
opAt(q, j, n) ==
    /\ startsAt(q, FilterOps[n], j)
    /\ IsNumChar(charAt(q, skipSpaces(q, j + Len(FilterOps[n]))))

\* the loop while ((match = filterRegex.exec(q)) !== null) from lastIndex
\* pos - 1: the triples (keyword, operator, number text) in order. The lazy
\* .*? stops at the first operator that a number follows.
RECURSIVE filterExec(_, _)
filterExec(q, pos) ==
    LET starts == { i \in pos..Len(q) : keywordAt(q, FilterKeywords, i) }
    IN  IF starts = {} THEN << >>
        ELSE
        LET i == CHOOSE x \in starts : \A y \in starts : x <= y
            kw == keywordOf(q, FilterKeywords, i)
            js == { j \in (i + Len(kw))..Len(q) : \E n \in 1..Len(FilterOps) : opAt(q, j, n) }
        IN  IF js = {} THEN << >>
            ELSE
            LET j == CHOOSE x \in js : \A y \in js : x <= y
                n == CHOOSE x \in 1..Len(FilterOps) :
                        opAt(q, j, x) /\ \A y \in 1..(x - 1) : ~opAt(q, j, y)
                ns == skipSpaces(q, j + Len(FilterOps[n]))
                ne == numCharsEnd(q, ns)
            IN  << [raw |-> kw, op |-> FilterOps[n], numRaw |-> SubSeq(q, ns, ne - 1)] >>
                \o filterExec(q, ne)

\* s.replace(',', '.'): the first comma only
replaceComma(s) ==
    IF ~includes(s, ",") THEN s
    ELSE LET i == CHOOSE x \in 1..Len(s) :
                     charAt(s, x) = "," /\ \A y \in 1..(x - 1) : charAt(s, y) # ","
         IN  SubSeq(s, 1, i - 1) \o "." \o SubSeq(s, i + 1, Len(s))

\* ------------------------------------------------------------------------
\* Replies
\* ------------------------------------------------------------------------
\* A reply is the message template the code returns with the values it puts
\* in: intent names the branch that returned, tpl the template, n a count or
\* NaN, nums the integers, text the scalar strings, cols and more the column
\* lists, stats the rounded means and deviations, lines the listed rows.
Reply(intent, tpl) ==
    [intent |-> intent, tpl |-> tpl, n |-> Num(0), nums |-> << >>, text |-> << >>,
     cols |-> << >>, more |-> << >>, stats |-> << >>, lines |-> << >>]

NoReply == Reply("none", "none")

\* Number(s) of a string, as isNaN and Math.round see it: the whole trimmed
\* text must be a number; '' is 0
NumberOfStr(s) ==
    LET u == trim(s)
        p1 == IF charAt(u, 1) \in {"-", "+"} THEN 2 ELSE 1
        p2 == digitsEnd(u, p1)
        p3 == IF charAt(u, p2) = "." THEN digitsEnd(u, p2 + 1) ELSE p2
    IN  IF Len(u) = 0 THEN Num(0)
        ELSE IF p3 = Len(u) + 1 THEN parseFloatStr(u) ELSE NaN

\* round(v, 4) of a row's value: null, undefined and what is not a number are
\* returned as they are; a number in tenths is already a multiple of 0.0001
round(v) ==
    IF v.t = "str" /\ ~IsNaN(NumberOfStr(v.s)) THEN NumberOfStr(v.s) ELSE v

\* LABEL_PRETTY(row): the label (?? '') and the first numeric column's value
LABEL_PRETTY(row) ==
    [q |-> IF Get(row, LABEL_COL).t \in {"null", "undef"} THEN Str("")
           ELSE Get(row, LABEL_COL),
     firstNum |-> IF Len(NUMERIC_COLS) > 0 THEN round(Get(row, NUMERIC_COLS[1]))
                  ELSE Str("")]

\* ------------------------------------------------------------------------
\* renderer.js: answerFromData
\* ------------------------------------------------------------------------
GoodKeywords == << "good", "boa", "boas", "bom", "bons" >>
BadKeywords == << "bad", "ruim", "ruins" >>
countTriggers == << "quantas", "quantos", "conta", "contagem", "total" >>
summaryTriggers ==
    << "resumo", "sumário", "estatística", "estatisticas", "descrição",
       "quantas linhas", "tamanho do dataset", "quantidade" >>

qualityKeywords(key) == IF key = "good" THEN GoodKeywords ELSE BadKeywords

\* variant: the label is compared without toLowerCase()
labelMatches_caseSensitive(r, key) ==
    \E n \in 1..Len(qualityKeywords(key)) :
        includes(String(Get(r, LABEL_COL)), qualityKeywords(key)[n])

\* qualityKeywords[key].some(k => String(r[LABEL_COL]).toLowerCase().includes(k))
labelMatches(r, key) ==
    \E n \in 1..Len(qualityKeywords(key)) :
        includes(toLowerCase(String(Get(r, LABEL_COL))), qualityKeywords(key)[n])

\* DATA.filter(r => label of r matches the family)
rowsOfLabel(key) == SelectSeq(DATA.rows, LAMBDA r : labelMatches(r, key))

\* words.some(w => list.includes(w))
someWordIn(words, list) == \E i \in 1..Len(words) : seqIncludes(list, words[i])

\* branch 1
isCountQuestion(words) ==
    /\ someWordIn(words, countTriggers)
    /\ someWordIn(words, GoodKeywords \o BadKeywords)

countAnswer ==
    [Reply("count-by-label", "Totais") EXCEPT
        !.nums = << Len(rowsOfLabel("good")), Len(rowsOfLabel("bad")), Len(DATA.rows) >>]

\* branch 2
isSummaryQuestion(q) ==
    \E n \in 1..Len(summaryTriggers) : includes(q, summaryTriggers[n])

summaryAnswer ==
    [Reply("summary", "Dataset processado") EXCEPT
        !.nums = << Len(DATA.rows), Len(COLUMNS) >>, !.cols = COLUMNS]

\* the first word of a captured group: group.trim().split(/\s+/)[0]
firstWord(g) == split(trim(g))[1]

\* branch 3
meanAnswer(m) ==
    LET colRaw == firstWord(m.g2)
        col == resolveColumn(colRaw)
        vals == SelectSeq([i \in 1..Len(DATA.rows) |-> Get(DATA.rows[i], col)],
                          LAMBDA v : ~IsNaN(parseFloat(v)))
    IN  IF seqIncludes(NUMERIC_COLS, col)
        THEN [Reply("mean-of-column", "Media") EXCEPT
                !.text = << col >>, !.stats = << round4(mean(vals)), round4(std(vals)) >>]
        ELSE [Reply("mean-of-column", "Coluna nao encontrada ou nao e numerica") EXCEPT
                !.text = << colRaw >>, !.cols = NUMERIC_COLS]

\* parseFloat(r[col]) || 0
sortKey(r, col) == IF parseFloat(Get(r, col)).t = "num" THEN parseFloat(Get(r, col)).n ELSE 0

\* variant: the comparator sends a row before the rows of equal key
RECURSIVE insertSorted_tiesFirst(_, _, _)
insertSorted_tiesFirst(sorted, r, col) ==
    IF Len(sorted) = 0 THEN << r >>
    ELSE IF sortKey(Head(sorted), col) > sortKey(r, col)
         THEN << Head(sorted) >> \o insertSorted_tiesFirst(Tail(sorted), r, col)
         ELSE << r >> \o sorted

\* a row put into a list sorted by falling key, behind the rows of equal key
RECURSIVE insertSorted(_, _, _)
insertSorted(sorted, r, col) ==
    IF Len(sorted) = 0 THEN << r >>
    ELSE IF sortKey(Head(sorted), col) >= sortKey(r, col)
         THEN << Head(sorted) >> \o insertSorted(Tail(sorted), r, col)
         ELSE << r >> \o sorted

\* DATA.slice().sort((a, b) => key(b) - key(a)): a stable sort of a copy
RECURSIVE sortDesc(_, _)
sortDesc(rows, col) ==
    IF Len(rows) = 0 THEN << >>
    ELSE insertSorted(sortDesc(SubSeq(rows, 1, Len(rows) - 1), col), rows[Len(rows)], col)

\* topMatch[1] ? parseInt(topMatch[1], 10) : 5
topCount(m) == IF Len(m.g1) > 0 THEN parseIntStr(m.g1) ELSE Num(DefaultTopN)

\* branch 4
topAnswer(m) ==
    LET n == topCount(m)
        colRaw == firstWord(m.g2)
        col == resolveColumn(colRaw)
        sorted == sliceTo(sortDesc(DATA.rows, col), IF n.t = "num" THEN n.n ELSE 0)
    IN  IF Len(col) = 0 \/ ~seqIncludes(NUMERIC_COLS, col)
        THEN [Reply("top-n-by-column", "Nao entendi a coluna para ordenar") EXCEPT
                !.cols = NUMERIC_COLS]
        ELSE [Reply("top-n-by-column", "Top") EXCEPT
                !.n = n, !.text = << col >>,
                !.lines = [i \in 1..Len(sorted) |->
                             [rank |-> i, label |-> LABEL_PRETTY(sorted[i]),
                              vals |-> << round(Get(sorted[i], col)) >>]]]

\* the body of the extraction loop for one match: the filter pushed, if any
\* variant: the filter is pushed without the NUMERIC_COLS.includes(col) test
filterOf_noNumericCheck(match) ==
    << [col |-> resolveColumn(match.raw), op |-> match.op,
        threshold |-> parseFloatStr(replaceComma(match.numRaw))] >>

filterOf(match) ==
    LET col == resolveColumn(match.raw)
    IN  IF seqIncludes(NUMERIC_COLS, col)
        THEN << [col |-> col, op |-> match.op,
                 threshold |-> parseFloatStr(replaceComma(match.numRaw))] >>
        ELSE << >>

RECURSIVE filtersOf(_)
filtersOf(matches) ==
    IF Len(matches) = 0 THEN << >>
    ELSE filterOf(Head(matches)) \o filtersOf(Tail(matches))

\* the filters array after the loop
extractFilters(q) == filtersOf(filterExec(q, 1))

\* f.compFn(r[f.col])
compFn(f, r) == Compare(parseFloat(Get(r, f.col)), f.op, f.threshold)

\* variant: filters.some instead of filters.every
rowPasses_some(filters, r) == \E i \in 1..Len(filters) : compFn(filters[i], r)

\* filters.every(f => f.compFn(r[f.col]))
rowPasses(filters, r) == \A i \in 1..Len(filters) : compFn(filters[i], r)

\* branch 5
filterAnswer(filters) ==
    LET matched == SelectSeq(DATA.rows, LAMBDA r : rowPasses(filters, r))
        sample == sliceTo(matched, FilterSample)
    IN  [Reply("filter-by-comparison", "Encontradas") EXCEPT
            !.nums = << Len(matched) >>,
            !.lines = [i \in 1..Len(sample) |->
                         [rank |-> 0, label |-> LABEL_PRETTY(sample[i]),
                          vals |-> [k \in 1..Len(filters) |->
                                      round(Get(sample[i], filters[k].col))]]]]

\* Object.entries(qualityKeywords).find(...): good is tried before bad
matchedLabel(words) ==
    IF someWordIn(words, GoodKeywords) THEN "good"
    ELSE IF someWordIn(words, BadKeywords) THEN "bad"
    ELSE ""

\* branch 6
profileAnswer(labelKey) ==
    LET relevant == rowsOfLabel(labelKey)
    IN  IF Len(relevant) = 0
        THEN [Reply("label-profile", "Nao foram encontradas amostras") EXCEPT
                !.text = << labelKey >>]
        ELSE [Reply("label-profile", "Resumo das amostras") EXCEPT
                !.text = << labelKey >>, !.cols = NUMERIC_COLS,
                !.stats = [k \in 1..Len(NUMERIC_COLS) |->
                             round4(mean([i \in 1..Len(relevant) |->
                                            Get(relevant[i], NUMERIC_COLS[k])]))]]

\* variant: the last branch returns the greeting the window opens with
fallbackAnswer_greeting ==
    [Reply("greeting", "Ola! Pergunte sobre as macas") EXCEPT !.cols = NUMERIC_COLS]

\* branch 7
fallbackAnswer ==
    [Reply("unrecognized", "Desculpe: nao entendi a pergunta") EXCEPT
        !.cols = NUMERIC_COLS]

\* variant: the mean branch is tried before the summary branch, as the
\* public renderer does
answerFromData_meanFirst(qn) ==
    LET q == toLowerCase(trim(qn))
        words == split(q)
    IN  IF isCountQuestion(words) THEN countAnswer
        ELSE IF mMatch(q).ok THEN meanAnswer(mMatch(q))
        ELSE IF isSummaryQuestion(q) THEN summaryAnswer
        ELSE IF topMatch(q).ok THEN topAnswer(topMatch(q))
        ELSE IF Len(extractFilters(q)) > 0 THEN filterAnswer(extractFilters(q))
        ELSE IF matchedLabel(words) # "" THEN profileAnswer(matchedLabel(words))
        ELSE fallbackAnswer

\* answerFromData(question): the branches in the order of the code, the first
\* whose condition holds returns
answerFromData(qn) ==
    LET q == toLowerCase(trim(qn))
        words == split(q)
    IN  IF isCountQuestion(words) THEN countAnswer
        ELSE IF isSummaryQuestion(q) THEN summaryAnswer
        ELSE IF mMatch(q).ok THEN meanAnswer(mMatch(q))
        ELSE IF topMatch(q).ok THEN topAnswer(topMatch(q))
        ELSE IF Len(extractFilters(q)) > 0 THEN filterAnswer(extractFilters(q))
        ELSE IF matchedLabel(words) # "" THEN profileAnswer(matchedLabel(words))
        ELSE fallbackAnswer

\* ------------------------------------------------------------------------
\* Public renderer (part_001): dataset structures
\* ------------------------------------------------------------------------
\* rows sampled to decide whether a column is numeric
SampleRows_p == 30

COL_ALIASES_p ==
    { <<"tamanho", "Size">>, <<"peso", "Weight">>, <<"doçura", "Sweetness">>,
      <<"doce", "Sweetness">>, <<"crocância", "Crunchiness">>,
      <<"crocancia", "Crunchiness">>, <<"suculência", "Juiciness">>,
      <<"suculencia", "Juiciness">>, <<"maturação", "Ripeness">>,
      <<"maturacao", "Ripeness">>, <<"acidez", "Acidity">>,
      <<"qualidade", "Quality">> }

\* COL_ALIASES[entrada] || ucfirst(entrada)
resolveColumn_p(raw) ==
    IF \E p \in COL_ALIASES_p : p[1] = raw
    THEN (CHOOSE p \in COL_ALIASES_p : p[1] = raw)[2]
    ELSE ucfirst(raw)

\* one entry of a row as the load keeps it: the key trimmed, the value made a
\* number when parseFloat reads one from it
convertEntry(e) ==
    Entry(trim(e.k), IF IsNaN(parseFloat(e.v)) THEN e.v ELSE parseFloat(e.v))

convertRow(r) == [i \in 1..Len(r) |-> convertEntry(r[i])]

isNumericColumn_p(data, c) ==
    LET rows == sliceTo(data, SampleRows_p)
        nums == { i \in 1..Len(rows) : Get(rows[i], c).t = "num" }
    IN  10 * Cardinality(nums) >= 6 * Len(rows)

\* initDatasetStructures(arr): the values DATA, COLUMNS and NUMERIC_COLS are
\* left with
initDatasetStructures_p(arr) ==
    LET data == [i \in 1..Len(arr) |-> convertRow(arr[i])]
        cols == IF Len(data) > 0 THEN Keys(data[1]) ELSE << >>
    IN  [ DATA |-> data,
          COLUMNS |-> cols,
          NUMERIC_COLS |-> SelectSeq(cols, LAMBDA c : isNumericColumn_p(data, c)) ]

\* mean = arr => arr.reduce((a, b) => a + b, 0) / arr.length, rounded to four
\* places: 0 / 0 is NaN
mean_p(nums) ==
    IF Len(nums) = 0 THEN [t |-> "nan", num |-> 0, den |-> 1]
    ELSE round4([t |-> "ratio", num |-> sumSeq(nums), den |-> Len(nums)])

\* ------------------------------------------------------------------------
\* Public renderer: answerFromData
\* ------------------------------------------------------------------------
\* a character of [\wçãõáéíóú]
IsNameChar(c) == IsWordChar(c) \/ (Len(c) = 1 /\ includes("çãõáéíóú", c))

RECURSIVE nameEnd(_, _)
nameEnd(q, i) == IF i > Len(q) \/ ~IsNameChar(charAt(q, i)) THEN i ELSE nameEnd(q, i + 1)

\* m[eé]dia de ([\wçãõáéíóú]+) fits at position i
mediaAt(q, i) ==
    /\ startsAt(q, "media de ", i) \/ startsAt(q, "média de ", i)
    /\ IsNameChar(charAt(q, i + 9))

\* q.match(/m[eé]dia de ([\wçãõáéíóú]+)/): the leftmost match
mediaMatch(q) ==
    LET starts == { i \in 1..Len(q) : mediaAt(q, i) }
    IN  IF starts = {} THEN NoMatch
        ELSE LET i == CHOOSE x \in starts : \A y \in starts : x <= y
             IN  [ok |-> TRUE, g1 |-> SubSeq(q, i + 9, nameEnd(q, i + 9) - 1), g2 |-> ""]

\* a TypeError thrown on the way (DATA is null)
Fault == Reply("fault", "TypeError")

\* r.Quality_encoded === n || r.Quality_encoded === 'n'
encodedIs(r, n) ==
    \/ Get(r, "Quality_encoded") = Num(10 * n)
    \/ Get(r, "Quality_encoded") = Str(natToStr(n))

\* variant: the label of every row is read as a text (a row without
\* Quality_encoded is a TypeError)
countAnswer_p_strictLabel ==
    IF DATA_p.isNull \/ \E i \in 1..Len(DATA_p.rows) :
                           Get(DATA_p.rows[i], "Quality_encoded").t = "undef"
    THEN Fault
    ELSE [Reply("count-by-label", "Total") EXCEPT
            !.nums = << Len(DATA_p.rows),
                        Len(SelectSeq(DATA_p.rows, LAMBDA r : encodedIs(r, 1))),
                        Len(SelectSeq(DATA_p.rows, LAMBDA r : encodedIs(r, 0))) >>]

countAnswer_p ==
    IF DATA_p.isNull THEN Fault
    ELSE [Reply("count-by-label", "Total") EXCEPT
            !.nums = << Len(DATA_p.rows),
                        Len(SelectSeq(DATA_p.rows, LAMBDA r : encodedIs(r, 1))),
                        Len(SelectSeq(DATA_p.rows, LAMBDA r : encodedIs(r, 0))) >>]

\* variant: one test, of the numeric columns only, as in renderer.js
meanAnswer_p_merged(m) ==
    LET entrada == toLowerCase(m.g1)
        col == resolveColumn_p(entrada)
    IN  IF ~seqIncludes(NUMERIC_COLS_p, col)
        THEN [Reply("mean-of-column", "A coluna nao e numerica") EXCEPT
                !.text = << col >>, !.cols = NUMERIC_COLS_p]
        ELSE IF DATA_p.isNull THEN Fault
        ELSE [Reply("mean-of-column", "Media") EXCEPT
                !.text = << col >>,
                !.stats = << mean_p(validNums([i \in 1..Len(DATA_p.rows) |->
                                                Get(DATA_p.rows[i], col)])) >>]

meanAnswer_p(m) ==
    LET entrada == toLowerCase(m.g1)
        col == resolveColumn_p(entrada)
        sugestoes == SelectSeq(COLUMNS_p,
                        LAMBDA c : includes(toLowerCase(c), SubSeq(entrada, 1, Min(3, Len(entrada)))))
    IN  IF ~seqIncludes(COLUMNS_p, col)
        THEN [Reply("mean-of-column", "Coluna nao encontrada") EXCEPT
                !.text = << col >>, !.cols = sugestoes, !.more = COLUMNS_p]
        ELSE IF ~seqIncludes(NUMERIC_COLS_p, col)
        THEN [Reply("mean-of-column", "A coluna nao e numerica") EXCEPT
                !.text = << col >>, !.cols = NUMERIC_COLS_p]
        ELSE IF DATA_p.isNull THEN Fault
        ELSE [Reply("mean-of-column", "Media") EXCEPT
                !.text = << col >>,
                !.stats = << mean_p(validNums([i \in 1..Len(DATA_p.rows) |->
                                                Get(DATA_p.rows[i], col)])) >>]

summaryAnswer_p ==
    IF DATA_p.isNull THEN Fault
    ELSE [Reply("summary", "Dataset") EXCEPT
            !.nums = << Len(DATA_p.rows), Len(COLUMNS_p) >>, !.cols = NUMERIC_COLS_p]

fallbackAnswer_p == Reply("unrecognized", "Nao entendi")

\* answerFromData(q) of the public renderer
answerFromData_p(qn) ==
    LET q == toLowerCase(qn)
    IN  IF includes(q, "quantas") \/ includes(q, "quantos") THEN countAnswer_p
        ELSE IF mediaMatch(q).ok THEN meanAnswer_p(mediaMatch(q))
        ELSE IF includes(q, "resumo") \/ includes(q, "estatíst") THEN summaryAnswer_p
        ELSE fallbackAnswer_p

\* ------------------------------------------------------------------------
\* Public renderer: answerFromModels and getAnswer
\* ------------------------------------------------------------------------
\* MODEL_METRICS is [isNull, best_model, models]; models is the sequence of
\* the mapping's entries in Object.entries order; accuracies are in units of
\* 0.0001, which round(v, 4) leaves as they are.
NullMetrics ==
    [isNull |-> TRUE, best_model |-> [name |-> "", accuracy_mean |-> 0], models |-> << >>]

\* no reload under way
NoReload == [data |-> NullData, columns |-> << >>, numeric |-> << >>,
             metrics |-> NullMetrics, settled |-> FALSE]

modelAnswer(m) ==
    [Reply("model", "modelo") EXCEPT
        !.text = << m.name >>, !.nums = << m.accuracy_mean, m.f1_mean >>]

bestModelAnswer ==
    [Reply("model", "Melhor modelo") EXCEPT
        !.text = << MODEL_METRICS.best_model.name >>,
        !.nums = << MODEL_METRICS.best_model.accuracy_mean >>]

\* variant: the loop does not return at the first hit, the last hit wins
firstModelIn_last(q) ==
    LET ms == MODEL_METRICS.models
        hits == { i \in 1..Len(ms) : includes(q, ms[i].name) }
    IN  IF hits = {} THEN NoReply
        ELSE modelAnswer(ms[CHOOSE i \in hits : \A j \in hits : i >= j])

\* the loop over Object.entries(MODEL_METRICS.models || {}): the first entry
\* whose key the text holds returns
firstModelIn(q) ==
    LET ms == MODEL_METRICS.models
        hits == { i \in 1..Len(ms) : includes(q, ms[i].name) }
    IN  IF hits = {} THEN NoReply
        ELSE modelAnswer(ms[CHOOSE i \in hits : \A j \in hits : i <= j])

\* variant: without the test if (!MODEL_METRICS) return null
answerFromModels_noNullTest(qn) ==
    IF includes(toLowerCase(qn), "melhor modelo") THEN bestModelAnswer
    ELSE firstModelIn(toLowerCase(qn))

\* answerFromModels(q): NoReply stands for null
answerFromModels(qn) ==
    IF MODEL_METRICS.isNull THEN NoReply
    ELSE IF includes(toLowerCase(qn), "melhor modelo") THEN bestModelAnswer
    ELSE firstModelIn(toLowerCase(qn))

\* variant: the dataset is asked first, the models when it does not understand
getAnswer_dataFirst(qn) ==
    LET dAns == answerFromData_p(qn)
    IN  IF dAns.intent # "unrecognized" THEN dAns
        ELSE IF answerFromModels(qn) # NoReply THEN answerFromModels(qn)
        ELSE dAns

\* getAnswer(q)
getAnswer(qn) ==
    LET mAns == answerFromModels(qn)
    IN  IF mAns # NoReply THEN mAns ELSE answerFromData_p(qn)

\* ------------------------------------------------------------------------
\* Inputs: datasets and questions
\* ------------------------------------------------------------------------
RowGood == << Entry("Quality", Str("good")), Entry("Size", Num(10)) >>
RowBad == << Entry("Quality", Str("bad")), Entry("Size", Num(20)) >>

RowA == << Entry("Size", Num(15)), Entry("Weight", Num(20)),
           Entry("Quality", Str("good")), Entry("Quality_encoded", Num(10)) >>
RowB == << Entry("Size", Num(20)), Entry("Weight", Num(10)),
           Entry("Quality", Str("bad")), Entry("Quality_encoded", Num(0)) >>
RowC == << Entry("Size", Num(20)), Entry("Weight", Num(20)),
           Entry("Quality", Str("Good")), Entry("Quality_encoded", Str("1")) >>

RowText == << Entry("Size", Str("1.5")), Entry(" Weight ", Str("heavy")),
              Entry("Quality", Str("bad")) >>
RowJunk == << Entry("Size", Str("x")), Entry(" Weight ", Str("light")),
              Entry("Quality", Str("ruim")) >>

\* the row patterns datasets repeat
Patterns == { << RowGood, RowBad >>, << RowA, RowB, RowC >>, << RowText, RowJunk >> }

\* the first n rows of the endless repetition of pattern p
Cycle(p, n) == [i \in 1..n |-> p[((i - 1) % Len(p)) + 1]]

Lengths == { 0, 1, 2, 3, MaxRows }
Datasets == { Cycle(p, n) : p \in Patterns, n \in Lengths }

\* the dataset of the specification's scenarios
ScenarioData == << RowGood, RowBad >>

\* what questions are typed from
Fragments ==
    { "quantas", "Boas", "resumo", "Media de size", "top 2 por size",
      "size > 1", "peso >= 1,5", "size > -", "oi" }

RECURSIVE Join(_)
Join(fs) == IF Len(fs) = 1 THEN fs[1] ELSE fs[1] \o " " \o Join(Tail(fs))

FragSeqs == UNION { [1..n -> Fragments] : n \in 1..MaxFrags }

\* ------------------------------------------------------------------------
\* Spec: the answer functions applied to drawn inputs
\* ------------------------------------------------------------------------
\* what the statistical matcher's call can come back with: the invoke is
\* rejected, the handler reports ok = false, or a result with a score (in
\* hundredths) and an answer (null, '' or a text)
NlpResult(kind, score, answer) == [kind |-> kind, score |-> score, answer |-> answer]
NoNlp == NlpResult("none", 0, Null)

IdleCall == [pc |-> "idle", question |-> "", nlp |-> NoNlp, path |-> "", reply |-> NoReply]
\* the two entry points of sendMessage: the send button and the Enter key
Callers == { "click", "enter" }

\* a processText call that has not begun
IdleText == [pc |-> "idle", m |-> "null"]

\* the main process before its modules are evaluated, no saved model on disk
NlpIdle ==
    /\ modelOnDisk = [predict |-> FALSE, index |-> FALSE]
    /\ mainPc = "init" /\ handled = 0 /\ nlpPending = 0
    /\ manager = "null" /\ texts = [c \in Callers |-> IdleText]
    /\ loads = [predict |-> 0, index |-> 0] /\ trainings = 0

\* the 'run-pipeline' handler is invoked by at most two clicks at a time
Runs == { 1, 2 }
IdleRun == [pc |-> "idle", started |-> << >>, codes |-> << >>, result |-> "none"]
PipelineIdle == runs = [r \in Runs |-> IdleRun]

\* the callers of ensurePreprocessedData: createWindow and two
\* 'get-processed-data' requests
EnsureCallers == { "createWindow", "request1", "request2" }
PreprocessIdle ==
    /\ preprocessCache = "null" /\ jsonOnDisk = FALSE
    /\ ensures = [c \in EnsureCallers |-> "idle"]
    /\ pythons = {}

MainIdle == NlpIdle /\ PipelineIdle /\ PreprocessIdle

InitData ==
    \E arr \in Datasets, fs \in FragSeqs :
        /\ DATA = Loaded(initDatasetStructures(arr).DATA)
        /\ COLUMNS = initDatasetStructures(arr).COLUMNS
        /\ NUMERIC_COLS = initDatasetStructures(arr).NUMERIC_COLS
        /\ LABEL_COL = initDatasetStructures(arr).LABEL_COL
        /\ loadPc = "done"
        /\ calls = [c \in Callers |-> IdleCall]
        /\ typing = FALSE /\ sendDisabled = FALSE
        /\ DATA_p = Loaded(initDatasetStructures_p(arr).DATA)
        /\ COLUMNS_p = initDatasetStructures_p(arr).COLUMNS
        /\ NUMERIC_COLS_p = initDatasetStructures_p(arr).NUMERIC_COLS
        /\ MODEL_METRICS = NullMetrics
        /\ startPc = "done" /\ pipePc = "idle" /\ held = NoReload /\ MainIdle
        /\ parts = fs /\ question = Join(fs) /\ reply = NoReply /\ pc = "ready"

\* renderer.js: the question is put to answerFromData
Ask ==
    /\ pc = "ready"
    /\ reply' = answerFromData(question)
    /\ pc' = "answered"
    /\ UNCHANGED << twoTierVars, publicVars, mainVars, parts, question >>

\* public renderer: the question is put to answerFromData
Ask_p ==
    /\ pc = "ready"
    /\ reply' = answerFromData_p(question)
    /\ pc' = "answered_p"
    /\ UNCHANGED << twoTierVars, publicVars, mainVars, parts, question >>

NextData == Ask \/ Ask_p

Spec == InitData /\ [][NextData]_vars

\* ------------------------------------------------------------------------
\* SpecColumn: the answer functions applied to questions that name a column
\* or a label
\* ------------------------------------------------------------------------
\* rows with a text in a numeric column and with a negative value
RowOdd == << Entry("Quality", Str("good")), Entry("Size", Str("x")),
             Entry("Crunchiness", Num(10)) >>
RowMid == << Entry("Quality", Str("bad")), Entry("Size", Num(15)),
             Entry("Crunchiness", Num(30)) >>
RowNeg == << Entry("Quality", Str("bad")), Entry("Size", Num(-5)),
             Entry("Crunchiness", Num(30)) >>

\* a row with neither the label column nor the Size column
RowBare == << Entry("Crunchiness", Num(20)) >>

ColumnPatterns ==
    { << RowGood, RowBad >>, << RowA, RowB, RowC >>, << RowText, RowJunk >>,
      << RowOdd, RowMid, RowNeg >>, << RowMid, RowBare >> }
ColumnLengths == { 0, 1, 2, 3, 4, MaxRows }
ColumnDatasets == { Cycle(p, n) : p \in ColumnPatterns, n \in ColumnLengths }

ColumnQuestions ==
    { "top 1 por size", "top 3 por Weight", "Top 6 por tamanho", "maiores por size",
      "melhores por peso", "top por size", "media de size", "MEDIA de Tamanho",
      "average de weight", "media de peso", "media de crocancia", "media de quality", "media de sizes",
      "media de sabor", "Boas", "ruins", "quantas boas", "resumo", "size > 1" }

InitColumn ==
    \E arr \in ColumnDatasets, qn \in ColumnQuestions :
        /\ DATA = Loaded(initDatasetStructures(arr).DATA)
        /\ COLUMNS = initDatasetStructures(arr).COLUMNS
        /\ NUMERIC_COLS = initDatasetStructures(arr).NUMERIC_COLS
        /\ LABEL_COL = initDatasetStructures(arr).LABEL_COL
        /\ loadPc = "done"
        /\ calls = [c \in Callers |-> IdleCall]
        /\ typing = FALSE /\ sendDisabled = FALSE
        /\ DATA_p = Loaded(initDatasetStructures_p(arr).DATA)
        /\ COLUMNS_p = initDatasetStructures_p(arr).COLUMNS
        /\ NUMERIC_COLS_p = initDatasetStructures_p(arr).NUMERIC_COLS
        /\ MODEL_METRICS = NullMetrics
        /\ startPc = "done" /\ pipePc = "idle" /\ held = NoReload /\ MainIdle
        /\ parts = << qn >> /\ question = qn /\ reply = NoReply /\ pc = "ready"

SpecColumn == InitColumn /\ [][NextData]_vars

\* ------------------------------------------------------------------------
\* SpecTwoTier: renderer.js, the startup load and sendMessage
\* ------------------------------------------------------------------------
\* score > 0.75, in hundredths
ScoreThreshold == 75

GreetAnswer == "Ola! Pergunte sobre as macas"

NlpOutcomes ==
    { NlpResult("throw", 0, Null), NlpResult("notOk", 0, Null) }
    \cup { NlpResult("ok", s, a) : s \in { 0, ScoreThreshold, ScoreThreshold + 1 },
                                   a \in { Null, Str(""), Str(GreetAnswer) } }

\* what the user types into the input of the two-tier renderer
TwoTierInputs == { " oi ", "quantas boas", "size > 1" }
TwoTierDatasets == { << >>, ScenarioData, << RowA, RowB, RowC >> }

\* a value is truthy
truthy(v) ==
    \/ v.t = "str" /\ Len(v.s) > 0
    \/ v.t = "num" /\ v.n # 0

ErrorReply(msg) == [Reply("error", "Erro") EXCEPT !.text = << msg >>]
NotLoadedMessage == "Dados ainda nao carregados. Aguarde a inicializacao do app."
MatcherReply(a) == [Reply("matcher", "nlp answer") EXCEPT !.text = << a.s >>]

\* variant: score >= 0.75
matcherAccepted_atThreshold(res) == res.score >= ScoreThreshold /\ truthy(res.answer)

\* score > 0.75 && nlpRes.result.answer
matcherAccepted(res) == res.score > ScoreThreshold /\ truthy(res.answer)

InitTwoTier ==
    /\ DATA = NullData /\ COLUMNS = << >> /\ NUMERIC_COLS = << >> /\ LABEL_COL = "Quality"
    /\ loadPc = "init"
    /\ calls = [c \in Callers |-> IdleCall]
    /\ typing = FALSE /\ sendDisabled = FALSE
    /\ DATA_p = NullData /\ COLUMNS_p = << >> /\ NUMERIC_COLS_p = << >>
    /\ MODEL_METRICS = NullMetrics
    /\ startPc = "init" /\ pipePc = "idle" /\ held = NoReload /\ MainIdle
    /\ parts = << >> /\ question = "" /\ reply = NoReply /\ pc = "init"

restUnchanged == UNCHANGED << publicVars, mainVars, parts, question, reply, pc >>

\* DOMContentLoaded: the handler runs up to await loadProcessedData()
DomContentLoaded ==
    /\ loadPc = "init"
    /\ loadPc' = "loading"
    /\ UNCHANGED << DATA, COLUMNS, NUMERIC_COLS, LABEL_COL, calls, typing, sendDisabled >>
    /\ restUnchanged

\* loadProcessedData() resolves with arr: initDatasetStructures(arr)
LoadResolves ==
    /\ loadPc = "loading"
    /\ \E arr \in TwoTierDatasets :
        /\ DATA' = Loaded(initDatasetStructures(arr).DATA)
        /\ COLUMNS' = initDatasetStructures(arr).COLUMNS
        /\ NUMERIC_COLS' = initDatasetStructures(arr).NUMERIC_COLS
        /\ LABEL_COL' = initDatasetStructures(arr).LABEL_COL
    /\ loadPc' = "done"
    /\ UNCHANGED << calls, typing, sendDisabled >>
    /\ restUnchanged

\* loadProcessedData() throws: the catch branch, DATA stays null
LoadRejects ==
    /\ loadPc = "loading"
    /\ loadPc' = "failed"
    /\ UNCHANGED << DATA, COLUMNS, NUMERIC_COLS, LABEL_COL, calls, typing, sendDisabled >>
    /\ restUnchanged

\* sendMessage() from entry point c up to await window.api.nlpProcess: a click
\* needs the button enabled; an empty question returns at once
sendMessage(c, input) ==
    /\ calls[c].pc \in { "idle", "done" }
    /\ c = "click" => ~sendDisabled
    /\ trim(input) # ""
    /\ calls' = [calls EXCEPT ![c] =
                    [pc |-> "awaitNlp", question |-> trim(input), nlp |-> NoNlp,
                     path |-> "", reply |-> NoReply]]
    /\ typing' = TRUE
    /\ sendDisabled' = TRUE
    /\ UNCHANGED << DATA, COLUMNS, NUMERIC_COLS, LABEL_COL, loadPc >>
    /\ restUnchanged

\* variant: no finally block, the button stays disabled
finish_noFinally(c, res, path, r) ==
    /\ calls' = [calls EXCEPT ![c] =
                    [pc |-> "done", question |-> calls[c].question, nlp |-> res,
                     path |-> path, reply |-> r]]
    /\ typing' = FALSE
    /\ UNCHANGED sendDisabled

\* the end of sendMessage: removeTyping, addMessage('bot', ...), and the
\* finally block
finish(c, res, path, r) ==
    /\ calls' = [calls EXCEPT ![c] =
                    [pc |-> "done", question |-> calls[c].question, nlp |-> res,
                     path |-> path, reply |-> r]]
    /\ typing' = FALSE
    /\ sendDisabled' = FALSE

\* variant: window.chatAPI.ask sleeps without the test of DATA
nlpSettles_noReadyCheck(c, res) ==
    /\ calls[c].pc = "awaitNlp"
    /\ IF res.kind # "ok"
       THEN finish(c, res, "nlpError", ErrorReply("NLP error"))
       ELSE IF matcherAccepted(res)
       THEN finish(c, res, "matcher", MatcherReply(res.answer))
       ELSE /\ calls' = [calls EXCEPT ![c].pc = "sleeping", ![c].nlp = res,
                                      ![c].path = "keyword"]
            /\ UNCHANGED << typing, sendDisabled >>
    /\ UNCHANGED << DATA, COLUMNS, NUMERIC_COLS, LABEL_COL, loadPc >>
    /\ restUnchanged

\* variant: a failed matcher call falls back to window.chatAPI.ask
nlpSettles_fallbackOnError(c, res) ==
    /\ calls[c].pc = "awaitNlp"
    /\ IF res.kind = "ok" /\ matcherAccepted(res)
       THEN finish(c, res, "matcher", MatcherReply(res.answer))
       ELSE IF DATA.isNull
       THEN finish(c, res, "notReady", ErrorReply(NotLoadedMessage))
       ELSE /\ calls' = [calls EXCEPT ![c].pc = "sleeping", ![c].nlp = res,
                                      ![c].path = "keyword"]
            /\ UNCHANGED << typing, sendDisabled >>
    /\ UNCHANGED << DATA, COLUMNS, NUMERIC_COLS, LABEL_COL, loadPc >>
    /\ restUnchanged

\* nlpProcess settles with res: the error path, the matcher's answer, or
\* window.chatAPI.ask, which throws while DATA is null and else sleeps
nlpSettles(c, res) ==
    /\ calls[c].pc = "awaitNlp"
    /\ IF res.kind # "ok"
       THEN finish(c, res, "nlpError", ErrorReply("NLP error"))
       ELSE IF matcherAccepted(res)
       THEN finish(c, res, "matcher", MatcherReply(res.answer))
       ELSE IF DATA.isNull
       THEN finish(c, res, "notReady", ErrorReply(NotLoadedMessage))
       ELSE /\ calls' = [calls EXCEPT ![c].pc = "sleeping", ![c].nlp = res,
                                      ![c].path = "keyword"]
            /\ UNCHANGED << typing, sendDisabled >>
    /\ UNCHANGED << DATA, COLUMNS, NUMERIC_COLS, LABEL_COL, loadPc >>
    /\ restUnchanged

\* sleep(150) is over: ask returns answerFromData(question), which is shown
askReturns(c) ==
    /\ calls[c].pc = "sleeping"
    /\ finish(c, calls[c].nlp, "keyword", answerFromData(calls[c].question))
    /\ UNCHANGED << DATA, COLUMNS, NUMERIC_COLS, LABEL_COL, loadPc >>
    /\ restUnchanged

NextTwoTier ==
    \/ DomContentLoaded
    \/ LoadResolves
    \/ LoadRejects
    \/ \E c \in Callers, input \in TwoTierInputs : sendMessage(c, input)
    \/ \E c \in Callers, res \in NlpOutcomes : nlpSettles(c, res)
    \/ \E c \in Callers : askReturns(c)

SpecTwoTier == InitTwoTier /\ [][NextTwoTier]_vars

\* the promise of ipcRenderer.invoke('nlp-process') settles, and the timer of
\* sleep(150) fires, for every call that waits for them. The second conjunct
\* is WF_vars(askReturns(c)) written out: askReturns(c) is enabled exactly
\* when calls[c].pc = "sleeping", and it changes calls.
SpecTwoTierFair ==
    /\ SpecTwoTier
    /\ \A c \in Callers :
        /\ WF_vars(\E res \in NlpOutcomes : nlpSettles(c, res))
        /\ ([]<>(calls[c].pc # "sleeping") \/ []<><<askReturns(c)>>_vars)

\* ------------------------------------------------------------------------
\* SpecPublic: public/script/renderer.js, the startup load, the pipeline
\* button and sendMessage
\* ------------------------------------------------------------------------
\* metrics of one model, the means in units of 0.0001
Model(name, acc, f1) == [name |-> name, accuracy_mean |-> acc, f1_mean |-> f1]
Metrics(best, models) ==
    [isNull |-> FALSE,
     best_model |-> [name |-> best.name, accuracy_mean |-> best.accuracy_mean],
     models |-> models]

\* the metrics documents getModelMetrics can deliver; the last has no models
MetricsDocs ==
    { Metrics(Model("rf", 9123, 9000),
              << Model("svm", 8800, 8700), Model("rf", 9123, 9000) >>),
      Metrics(Model("KNN", 9500, 9400),
              << Model("rf", 9123, 9000), Model("svm", 8800, 8700),
                 Model("KNN", 9500, 9400) >>),
      Metrics(Model("rf", 9123, 9000), << >>) }

PublicInputs ==
    { " Melhor Modelo svm", "rf ou svm", "quantas svm", "media de size", "KNN", "oi" }
PublicDatasets == { ScenarioData, << RowA, RowB, RowC >> }

InitPublic ==
    /\ DATA = NullData /\ COLUMNS = << >> /\ NUMERIC_COLS = << >> /\ LABEL_COL = "Quality"
    /\ loadPc = "init"
    /\ calls = [c \in Callers |-> IdleCall]
    /\ typing = FALSE /\ sendDisabled = FALSE
    /\ DATA_p = NullData /\ COLUMNS_p = << >> /\ NUMERIC_COLS_p = << >>
    /\ MODEL_METRICS = NullMetrics
    /\ startPc = "init" /\ pipePc = "idle" /\ held = NoReload /\ MainIdle
    /\ parts = << >> /\ question = "" /\ reply = NoReply /\ pc = "init"

\* pc tells whether the step taken last was a sendMessage ("sent") or a step
\* of a load ("load"); question and reply are those of the last sendMessage
step(name) ==
    /\ pc' = "load"
    /\ UNCHANGED << twoTierVars, mainVars, parts, question, reply >>

\* DATA = arr; initDatasetStructures(DATA)
setData(arr) ==
    /\ DATA_p' = Loaded(initDatasetStructures_p(arr).DATA)
    /\ COLUMNS_p' = initDatasetStructures_p(arr).COLUMNS
    /\ NUMERIC_COLS_p' = initDatasetStructures_p(arr).NUMERIC_COLS

\* DOMContentLoaded up to await loadProcessedData()
DomContentLoaded_p ==
    /\ startPc = "init"
    /\ startPc' = "loadingData"
    /\ UNCHANGED << DATA_p, COLUMNS_p, NUMERIC_COLS_p, MODEL_METRICS, pipePc, held >>
    /\ step("start")

\* loadProcessedData() resolves, up to await loadModelMetrics()
StartDataResolves ==
    /\ startPc = "loadingData"
    /\ \E arr \in PublicDatasets : setData(arr)
    /\ startPc' = "loadingMetrics"
    /\ UNCHANGED << MODEL_METRICS, pipePc, held >>
    /\ step("data")

\* loadProcessedData() throws: the catch branch, the metrics are not loaded
StartDataRejects ==
    /\ startPc = "loadingData"
    /\ startPc' = "done"
    /\ UNCHANGED << DATA_p, COLUMNS_p, NUMERIC_COLS_p, MODEL_METRICS, pipePc, held >>
    /\ step("dataFailed")

\* loadModelMetrics() resolves with a document, or with null on any failure
StartMetricsResolves ==
    /\ startPc = "loadingMetrics"
    /\ \E m \in MetricsDocs \cup { NullMetrics } : MODEL_METRICS' = m
    /\ startPc' = "done"
    /\ UNCHANGED << DATA_p, COLUMNS_p, NUMERIC_COLS_p, pipePc, held >>
    /\ step("metrics")

\* click on "Executar pipeline", up to await window.api.runPipeline()
PipelineClick ==
    /\ pipePc \in { "idle", "failed" }
    /\ pipePc' = "running"
    /\ held' = IF startPc = "done"
               THEN [data |-> DATA_p, columns |-> COLUMNS_p, numeric |-> NUMERIC_COLS_p,
                     metrics |-> MODEL_METRICS, settled |-> TRUE]
               ELSE NoReload
    /\ UNCHANGED << DATA_p, COLUMNS_p, NUMERIC_COLS_p, MODEL_METRICS, startPc >>
    /\ step("pipeline")

\* runPipeline() resolves (ok or not), up to await loadModelMetrics()
PipelineResolves ==
    /\ pipePc = "running"
    /\ pipePc' = "loadingMetrics"
    /\ UNCHANGED << DATA_p, COLUMNS_p, NUMERIC_COLS_p, MODEL_METRICS, startPc, held >>
    /\ step("pipelineRan")

\* runPipeline() rejects: the catch branch
PipelineRejects ==
    /\ pipePc = "running"
    /\ pipePc' = "failed"
    /\ UNCHANGED << DATA_p, COLUMNS_p, NUMERIC_COLS_p, MODEL_METRICS, startPc, held >>
    /\ step("pipelineFailed")

\* MODEL_METRICS = await loadModelMetrics(), up to await loadProcessedData()
PipelineMetricsResolves ==
    /\ pipePc = "loadingMetrics"
    /\ \E m \in MetricsDocs \cup { NullMetrics } : MODEL_METRICS' = m
    /\ pipePc' = "loadingData"
    /\ UNCHANGED << DATA_p, COLUMNS_p, NUMERIC_COLS_p, startPc, held >>
    /\ step("metrics")

\* DATA = await loadProcessedData(); initDatasetStructures(DATA)
PipelineDataResolves ==
    /\ pipePc = "loadingData"
    /\ \E arr \in PublicDatasets : setData(arr)
    /\ pipePc' = "idle"
    /\ held' = NoReload
    /\ UNCHANGED << MODEL_METRICS, startPc >>
    /\ step("data")

\* loadProcessedData() throws: the catch branch, DATA keeps its value
PipelineDataRejects ==
    /\ pipePc = "loadingData"
    /\ pipePc' = "failed"
    /\ UNCHANGED << DATA_p, COLUMNS_p, NUMERIC_COLS_p, MODEL_METRICS, startPc, held >>
    /\ step("dataFailed")

\* sendMessage(): getAnswer has no await that yields to another handler
\* between reading the question and showing the answer; a throw is shown as
\* 'Erro: ' + err.message
sendMessage_p(input) ==
    /\ trim(input) # ""
    /\ question' = trim(input)
    /\ reply' = LET ans == getAnswer(trim(input))
                IN  IF ans = Fault THEN ErrorReply("TypeError") ELSE ans
    /\ pc' = "sent"
    /\ UNCHANGED << twoTierVars, publicVars, mainVars, parts >>

NextPublic ==
    \/ DomContentLoaded_p
    \/ StartDataResolves
    \/ StartDataRejects
    \/ StartMetricsResolves
    \/ PipelineClick
    \/ PipelineResolves
    \/ PipelineRejects
    \/ PipelineMetricsResolves
    \/ PipelineDataResolves
    \/ PipelineDataRejects
    \/ \E input \in PublicInputs : sendMessage_p(input)

SpecPublic == InitPublic /\ [][NextPublic]_vars

\* ------------------------------------------------------------------------
\* SpecNlp: the statistical matcher in the main process: predict.js with the
\* 'nlp-process' handler of main.js, and nlp/index.js (ensureManager,
\* processText)
\* ------------------------------------------------------------------------
\* the renderers before anything happens in them
RendererIdle ==
    /\ DATA = NullData /\ COLUMNS = << >> /\ NUMERIC_COLS = << >> /\ LABEL_COL = "Quality"
    /\ loadPc = "init"
    /\ calls = [c \in Callers |-> IdleCall]
    /\ typing = FALSE /\ sendDisabled = FALSE
    /\ DATA_p = NullData /\ COLUMNS_p = << >> /\ NUMERIC_COLS_p = << >>
    /\ MODEL_METRICS = NullMetrics
    /\ startPc = "init" /\ pipePc = "idle" /\ held = NoReload
    /\ parts = << >> /\ question = "" /\ reply = NoReply /\ pc = "init"

InitNlp ==
    /\ RendererIdle
    /\ \E p \in BOOLEAN, i \in BOOLEAN : modelOnDisk = [predict |-> p, index |-> i]
    /\ mainPc = "init" /\ handled = 0 /\ nlpPending = 0
    /\ manager = "null" /\ texts = [c \in Callers |-> IdleText]
    /\ loads = [predict |-> 0, index |-> 0] /\ trainings = 0
    /\ PipelineIdle /\ PreprocessIdle

\* predict.js is evaluated: a new NlpManager, and manager.load(MODEL_PATH) when
\* the file exists (ok: the load does not throw)
evaluatePredict(ok) ==
    loads' = [loads EXCEPT !.predict = @ + (IF modelOnDisk.predict /\ ok THEN 1 ELSE 0)]

\* main.js is evaluated: require(nlpModulePath)
RequirePredict ==
    /\ mainPc = "init"
    /\ mainPc' = "ready"
    /\ \E ok \in BOOLEAN : evaluatePredict(ok)
    /\ UNCHANGED << modelOnDisk, handled, nlpPending, manager, texts, trainings >>
    /\ UNCHANGED << rendererVars, pipelineVars, preprocessVars >>

\* the 'nlp-process' handler up to await pm(text): the module is dropped from
\* require.cache and required again
NlpProcess ==
    /\ mainPc = "ready"
    /\ handled < MaxTexts
    /\ handled' = handled + 1
    /\ \E ok \in BOOLEAN : evaluatePredict(ok)
    /\ nlpPending' = nlpPending + 1
    /\ UNCHANGED << modelOnDisk, mainPc, manager, texts, trainings >>
    /\ UNCHANGED << rendererVars, pipelineVars, preprocessVars >>

\* pm(text) settles and the handler returns
NlpProcessReturns ==
    /\ nlpPending > 0
    /\ nlpPending' = nlpPending - 1
    /\ UNCHANGED << modelOnDisk, mainPc, handled, manager, texts, loads, trainings >>
    /\ UNCHANGED << rendererVars, pipelineVars, preprocessVars >>

\* processText(text) of caller c up to its first await that yields:
\* ensureManager returns the manager there is, or builds one and loads the
\* saved model (ok: the load does not throw), or builds one and awaits
\* manager.train()
processText(c) ==
    /\ texts[c].pc \in { "idle", "done", "failed" }
    /\ \E ok \in BOOLEAN :
        IF manager # "null"
        THEN /\ texts' = [texts EXCEPT ![c] = [pc |-> "processing", m |-> manager]]
             /\ UNCHANGED << manager, loads, trainings >>
        ELSE IF modelOnDisk.index /\ ok
        THEN /\ manager' = "loaded"
             /\ loads' = [loads EXCEPT !.index = @ + 1]
             /\ texts' = [texts EXCEPT ![c] = [pc |-> "processing", m |-> "loaded"]]
             /\ UNCHANGED trainings
        ELSE /\ manager' = "built"
             /\ trainings' = trainings + 1
             /\ texts' = [texts EXCEPT ![c] = [pc |-> "training", m |-> "null"]]
             /\ UNCHANGED loads
    /\ UNCHANGED << modelOnDisk, mainPc, handled, nlpPending >>
    /\ UNCHANGED << rendererVars, pipelineVars, preprocessVars >>

\* manager.train() resolves: the model is saved and m.process is called
TrainResolves(c) ==
    /\ texts[c].pc = "training"
    /\ manager' = "trained"
    /\ modelOnDisk' = [modelOnDisk EXCEPT !.index = TRUE]
    /\ texts' = [texts EXCEPT ![c] = [pc |-> "processing", m |-> "trained"]]
    /\ UNCHANGED << mainPc, handled, nlpPending, loads, trainings >>
    /\ UNCHANGED << rendererVars, pipelineVars, preprocessVars >>

\* manager.train() rejects: processText rejects, manager keeps the manager built
TrainRejects(c) ==
    /\ texts[c].pc = "training"
    /\ texts' = [texts EXCEPT ![c] = [pc |-> "failed", m |-> "null"]]
    /\ UNCHANGED << modelOnDisk, mainPc, handled, nlpPending, manager, loads, trainings >>
    /\ UNCHANGED << rendererVars, pipelineVars, preprocessVars >>

\* m.process('pt', text) settles and processText returns
ProcessReturns(c) ==
    /\ texts[c].pc = "processing"
    /\ texts' = [texts EXCEPT ![c].pc = "done"]
    /\ UNCHANGED << modelOnDisk, mainPc, handled, nlpPending, manager, loads, trainings >>
    /\ UNCHANGED << rendererVars, pipelineVars, preprocessVars >>

NextNlp ==
    \/ RequirePredict
    \/ NlpProcess
    \/ NlpProcessReturns
    \/ \E c \in Callers : processText(c)
    \/ \E c \in Callers : TrainResolves(c)
    \/ \E c \in Callers : TrainRejects(c)
    \/ \E c \in Callers : ProcessReturns(c)

SpecNlp == InitNlp /\ [][NextNlp]_vars

\* ------------------------------------------------------------------------
\* SpecPipeline: the 'run-pipeline' handler of electron_main.js
\* ------------------------------------------------------------------------
\* the scripts the handler runs, in the order of its awaits; the last only
\* when scripts/bundle_pipeline.js exists
Scripts == << "run_preprocess", "run_train", "run_postprocess", "bundle_pipeline" >>
\* the exit codes a script is drawn to close with
ExitCodes == { 0, 1 }

\* variant: the close listener resolves whatever the code
settle_anyCode(code) == "resolved"

\* runScript, p.on('close'): resolve on code 0, reject on any other
settle(code) == IF code = 0 THEN "resolved" ELSE "rejected"

InitPipeline ==
    /\ RendererIdle
    /\ NlpIdle /\ PreprocessIdle
    /\ PipelineIdle

\* the handler is invoked: it runs up to the await of the first script
RunPipeline(r) ==
    /\ runs[r].pc \in { "idle", "returned" }
    /\ runs' = [runs EXCEPT ![r] = [pc |-> "running", started |-> << Scripts[1] >>,
                                    codes |-> << >>, result |-> "none"]]
    /\ UNCHANGED << rendererVars, nlpVars, preprocessVars >>

\* the script awaited closes with a code: the catch branch returns ok: false,
\* or the next script is spawned, or the handler returns ok: true
\* (bundle: scripts/bundle_pipeline.js exists)
ScriptCloses(r, code, bundle) ==
    /\ runs[r].pc = "running"
    /\ LET n == Len(runs[r].started)
           codes == Append(runs[r].codes, code)
       IN  runs' = [runs EXCEPT ![r] =
             IF settle(code) = "rejected"
             THEN [pc |-> "returned", started |-> runs[r].started, codes |-> codes,
                   result |-> "failed"]
             ELSE IF n < 3 \/ (n = 3 /\ bundle)
             THEN [pc |-> "running", started |-> Append(runs[r].started, Scripts[n + 1]),
                   codes |-> codes, result |-> "none"]
             ELSE [pc |-> "returned", started |-> runs[r].started, codes |-> codes,
                   result |-> "ok"]]
    /\ UNCHANGED << rendererVars, nlpVars, preprocessVars >>

NextPipeline ==
    \/ \E r \in Runs : RunPipeline(r)
    \/ \E r \in Runs, code \in ExitCodes, bundle \in BOOLEAN : ScriptCloses(r, code, bundle)

SpecPipeline == InitPipeline /\ [][NextPipeline]_vars

\* ------------------------------------------------------------------------
\* SpecPreprocess: ensurePreprocessedData and its callers in main.js
\* ------------------------------------------------------------------------
\* jsonOnDisk: resources/processed_apple_quality.json exists and parses to a
\* truthy value; pythons: the callers whose preprocessing.py child is running
InitPreprocess ==
    /\ RendererIdle
    /\ NlpIdle /\ PipelineIdle
    /\ preprocessCache = "null"
    /\ jsonOnDisk \in BOOLEAN
    /\ ensures = [c \in EnsureCallers |-> "idle"]
    /\ pythons = {}

\* ensurePreprocessedData up to its first await: the file is used when it is
\* there, else runPythonPreprocess spawns preprocessing.py
ensurePreprocessedData(c) ==
    IF jsonOnDisk
    THEN /\ preprocessCache' = "data"
         /\ ensures' = [ensures EXCEPT ![c] = "returned"]
         /\ UNCHANGED pythons
    ELSE /\ pythons' = pythons \cup { c }
         /\ ensures' = [ensures EXCEPT ![c] = "awaitPython"]
         /\ UNCHANGED preprocessCache

\* createWindow (app ready, or activate with no window open)
createWindow ==
    /\ ensures["createWindow"] # "awaitPython"
    /\ ensurePreprocessedData("createWindow")
    /\ UNCHANGED << jsonOnDisk, rendererVars, nlpVars, pipelineVars >>

\* ipcMain.handle('get-processed-data')
GetProcessedData(c) ==
    /\ c # "createWindow"
    /\ ensures[c] # "awaitPython"
    /\ IF preprocessCache # "null"
       THEN /\ ensures' = [ensures EXCEPT ![c] = "returned"]
            /\ UNCHANGED << preprocessCache, pythons >>
       ELSE ensurePreprocessedData(c)
    /\ UNCHANGED << jsonOnDisk, rendererVars, nlpVars, pipelineVars >>

\* the child of caller c closes (ok: code 0 and a stdout that parses; wrote:
\* the script left the JSON file behind); the rest of ensurePreprocessedData
PythonCloses(c, ok, wrote) ==
    /\ c \in pythons
    /\ pythons' = pythons \ { c }
    /\ jsonOnDisk' = (jsonOnDisk \/ wrote)
    /\ IF ok \/ jsonOnDisk'
       THEN /\ preprocessCache' = "data"
            /\ ensures' = [ensures EXCEPT ![c] = "returned"]
       ELSE /\ ensures' = [ensures EXCEPT ![c] = "threw"]
            /\ UNCHANGED preprocessCache
    /\ UNCHANGED << rendererVars, nlpVars, pipelineVars >>

NextPreprocess ==
    \/ createWindow
    \/ \E c \in EnsureCallers : GetProcessedData(c)
    \/ \E c \in EnsureCallers, ok \in BOOLEAN, wrote \in BOOLEAN : PythonCloses(c, ok, wrote)

SpecPreprocess == InitPreprocess /\ [][NextPreprocess]_vars

\* ------------------------------------------------------------------------
\* Properties of the answer functions (Spec)
\* ------------------------------------------------------------------------
\* the text answerFromData of renderer.js works on, and its words
asked == toLowerCase(trim(question))
askedWords == { split(asked)[i] : i \in 1..Len(split(asked)) }

hasGreeting(q) == includes(q, "oi") \/ includes(q, "olá") \/ includes(q, "bom dia")

\* the trigger of each intent in renderer.js; the greeting trigger is the one
\* the specification describes
triggered(intent) ==
    CASE intent = "count-by-label" -> isCountQuestion(split(asked))
      [] intent = "summary" -> isSummaryQuestion(asked)
      [] intent = "mean-of-column" -> mMatch(asked).ok
      [] intent = "top-n-by-column" -> topMatch(asked).ok
      [] intent = "filter-by-comparison" -> Len(extractFilters(asked)) > 0
      [] intent = "label-profile" -> matchedLabel(split(asked)) # ""
      [] intent = "greeting" -> hasGreeting(asked)
      [] OTHER -> TRUE

\* the trigger of each intent in the public renderer
triggered_p(intent) ==
    CASE intent = "count-by-label" ->
            includes(toLowerCase(question), "quantas") \/ includes(toLowerCase(question), "quantos")
      [] intent = "mean-of-column" -> mediaMatch(toLowerCase(question)).ok
      [] intent = "summary" ->
            includes(toLowerCase(question), "resumo") \/ includes(toLowerCase(question), "estatíst")
      [] OTHER -> TRUE

\* the first intent of an order whose trigger holds
firstTriggered(order, T(_)) ==
    order[CHOOSE i \in 1..Len(order) : T(order[i]) /\ \A j \in 1..(i - 1) : ~T(order[j])]

OrderOfCode ==
    << "count-by-label", "summary", "mean-of-column", "top-n-by-column",
       "filter-by-comparison", "label-profile", "unrecognized" >>
OrderOfCode_p == << "count-by-label", "mean-of-column", "summary", "unrecognized" >>
OrderClaimed ==
    << "count-by-label", "summary", "mean-of-column", "top-n-by-column",
       "filter-by-comparison", "label-profile", "greeting", "unrecognized" >>

labelled(rows, family) ==
    { i \in 1..Len(rows) :
        \E k \in family : includes(toLowerCase(String(Get(rows[i], "Quality"))), k) }

GoodFamily == { "good", "boa", "boas", "bom", "bons" }
BadFamily == { "bad", "ruim", "ruins" }
CountWords == { "quantas", "quantos", "conta", "contagem", "total" }

\* the numbers of the count answer, whichever renderer gave it
counted(total, good, bad) ==
    IF pc = "answered" THEN reply.nums = << good, bad, total >>
    ELSE reply.nums = << total, good, bad >>

satisfying(rows, F) ==
    { i \in 1..Len(rows) :
        \A k \in 1..Len(F) :
            Compare(parseFloat(Get(rows[i], F[k].col)), F[k].op, F[k].threshold) }

\* the n-th smallest member of a set of positions
nth(S, n) == CHOOSE i \in S : Cardinality({ j \in S : j < i }) = n - 1

\* C8: the count a filter-by-comparison answer reports is the number of rows
\* that satisfy all the resolved triples of the question, and its sample is
\* the first at most 6 of those rows, in dataset order.
C8_FilterCountAndSample ==
    (pc = "answered" /\ reply.intent = "filter-by-comparison") =>
        LET F == extractFilters(asked)
            S == satisfying(DATA.rows, F)
        IN  /\ Len(F) > 0
            /\ reply.nums = << Cardinality(S) >>
            /\ Len(reply.lines) = IF Cardinality(S) < 6 THEN Cardinality(S) ELSE 6
            /\ \A n \in 1..Len(reply.lines) :
                /\ reply.lines[n].label = LABEL_PRETTY(DATA.rows[nth(S, n)])
                /\ reply.lines[n].vals =
                      [k \in 1..Len(F) |-> round(Get(DATA.rows[nth(S, n)], F[k].col))]

\* two triples and more than six rows that satisfy both: the sample stops at six
C8_Witness ==
    /\ pc = "answered"
    /\ reply.intent = "filter-by-comparison"
    /\ Len(extractFilters(asked)) = 2
    /\ reply.nums[1] > 6
    /\ Len(reply.lines) = 6

\* a sequence without its i-th element, and the question typed from what is left
without(s, i) == [j \in 1..(Len(s) - 1) |-> IF j < i THEN s[j] ELSE s[j + 1]]
typed(fs) == IF Len(fs) = 0 THEN "" ELSE Join(fs)

\* the triple a fragment of the question writes, if it writes one
tripleOf(f) == filterExec(toLowerCase(f), 1)

\* the fragment writes a triple whose column is not a numeric column
skippedTriple(f) ==
    /\ Len(tripleOf(f)) = 1
    /\ ~seqIncludes(NUMERIC_COLS, resolveColumn(tripleOf(f)[1].raw))

\* the fragment writes a triple whose threshold text parses to no number
unparsedTriple(f) ==
    /\ Len(tripleOf(f)) = 1
    /\ IsNaN(parseFloatStr(replaceComma(tripleOf(f)[1].numRaw)))

\* C9: a triple whose column is not a numeric column is skipped and the query
\* goes on: the answer is the answer to the question without that triple.
C9_SkippedTriple ==
    pc = "answered" =>
        \A i \in 1..Len(parts) :
            skippedTriple(parts[i]) => reply = answerFromData(typed(without(parts, i)))

\* 'size > 1 peso >= 1,5' on a dataset without Weight: the size filter alone
C9_Witness ==
    /\ pc = "answered"
    /\ DATA.rows = ScenarioData
    /\ parts = << "size > 1", "peso >= 1,5" >>
    /\ skippedTriple(parts[2])
    /\ reply.intent = "filter-by-comparison"
    /\ reply.nums = << 1 >>

\* C10: a triple whose threshold does not parse is dropped: the answer is the
\* answer to the question without that triple.
C10_UnparsedDropped ==
    pc = "answered" =>
        \A i \in 1..Len(parts) :
            unparsedTriple(parts[i]) => reply = answerFromData(typed(without(parts, i)))

\* ------------------------------------------------------------------------
\* Properties of the public renderer (SpecPublic)
\* ------------------------------------------------------------------------
\* what sendMessage shows for what answerFromData returned or threw
shownFromData ==
    IF answerFromData_p(question) = Fault THEN ErrorReply("TypeError")
    ELSE answerFromData_p(question)

\* the models whose name the lowercased question holds, by position
namedModels ==
    { i \in 1..Len(MODEL_METRICS.models) :
        includes(toLowerCase(question), MODEL_METRICS.models[i].name) }

\* the metrics are loaded and the question asks for the best model or names one
modelQuestion ==
    /\ ~MODEL_METRICS.isNull
    /\ includes(toLowerCase(question), "melhor modelo") \/ namedModels # {}

\* C2: getAnswer asks the models before the dataset: a question the models
\* answer gets that answer, also when it meets a dataset intent, and the
\* dataset answers only the questions the models do not.
C2_ModelsBeforeData ==
    pc = "sent" =>
        /\ modelQuestion => (reply.intent = "model" /\ reply = answerFromModels(question))
        /\ ~modelQuestion => (reply.intent # "model" /\ reply = shownFromData)

\* 'quantas svm' meets the count trigger and names a model: the model answers
C2_Witness ==
    /\ pc = "sent"
    /\ question = "quantas svm"
    /\ ~DATA_p.isNull
    /\ answerFromData_p(question).intent = "count-by-label"
    /\ reply.intent = "model"

\* C3: while MODEL_METRICS is null answerFromModels returns null for every
\* question, and what is shown comes from the dataset path.
C3_NoMetricsNoModelAnswer ==
    MODEL_METRICS.isNull =>
        /\ \A input \in PublicInputs : answerFromModels(trim(input)) = NoReply
        /\ pc = "sent" => (reply.intent # "model" /\ reply = shownFromData)

\* the startup load is over without metrics, and a question naming models is
\* answered by the dataset path
C3_Witness ==
    /\ pc = "sent"
    /\ MODEL_METRICS.isNull
    /\ startPc = "done"
    /\ ~DATA_p.isNull
    /\ question = "rf ou svm"
    /\ reply = Reply("unrecognized", "Nao entendi")

\* C4: with the metrics loaded, a question holding 'melhor modelo' gets the
\* best model, whichever models it names; any other gets the first model of
\* the mapping whose name it holds and no other; a question holding neither
\* gets no model answer.
C4_OneModelReported ==
    (pc = "sent" /\ ~MODEL_METRICS.isNull) =>
        IF includes(toLowerCase(question), "melhor modelo")
        THEN /\ reply.tpl = "Melhor modelo"
             /\ reply.text = << MODEL_METRICS.best_model.name >>
             /\ reply.nums = << MODEL_METRICS.best_model.accuracy_mean >>
        ELSE IF namedModels # {}
        THEN \E i \in namedModels :
                /\ \A j \in namedModels : i <= j
                /\ reply.tpl = "modelo"
                /\ reply.text = << MODEL_METRICS.models[i].name >>
                /\ reply.nums = << MODEL_METRICS.models[i].accuracy_mean,
                                   MODEL_METRICS.models[i].f1_mean >>
        ELSE reply.intent # "model"

\* 'rf ou svm' with svm before rf in the mapping: svm is reported
C4_Witness ==
    /\ pc = "sent"
    /\ question = "rf ou svm"
    /\ Cardinality(namedModels) = 2
    /\ MODEL_METRICS.models[1].name = "svm"
    /\ reply.text = << "svm" >>

\* ------------------------------------------------------------------------
\* Properties of sendMessage in renderer.js (SpecTwoTier)
\* ------------------------------------------------------------------------
\* the call of entry point c ends in this step with a matcher result
finishes(c) ==
    /\ calls[c].pc # "done"
    /\ calls'[c].pc = "done"
    /\ calls'[c].nlp.kind = "ok"

\* the result has a score above 0.75 and a non-empty answer string
accepted(res) ==
    /\ res.score > ScoreThreshold
    /\ res.answer.t = "str"
    /\ Len(res.answer.s) > 0

\* C1 (as amended): when the matcher's call succeeds, its answer is shown if
\* and only if its score is above 0.75 and its answer is a non-empty string;
\* otherwise the reply is the keyword answer for the same question when the
\* dataset is loaded, and the error 'Dados ainda não carregados' when it is
\* not.
C1_MatcherOrKeyword ==
    [][\A c \in Callers :
        finishes(c) =>
            /\ calls'[c].reply.intent = "matcher" <=> accepted(calls'[c].nlp)
            /\ accepted(calls'[c].nlp) =>
                calls'[c].reply.text = << calls'[c].nlp.answer.s >>
            /\ ~accepted(calls'[c].nlp) =>
                calls'[c].reply = IF DATA.isNull THEN ErrorReply(NotLoadedMessage)
                                  ELSE answerFromData(calls'[c].question)]_vars

\* one call fell through before the dataset was loaded, another after it, the
\* latter with a score of exactly 0.75 and an answer
C1_Witness ==
    /\ calls["click"].pc = "done" /\ calls["click"].path = "notReady"
    /\ calls["enter"].pc = "done" /\ calls["enter"].path = "keyword"
    /\ calls["enter"].nlp.score = ScoreThreshold
    /\ calls["enter"].nlp.answer = Str(GreetAnswer)
    /\ calls["enter"].reply = answerFromData(calls["enter"].question)

\* C1 as written: whenever the matcher's call succeeded and its answer is not
\* taken, the reply is the keyword answer
C1_KeywordWheneverNotAccepted ==
    \A c \in Callers :
        (calls[c].pc = "done" /\ calls[c].nlp.kind = "ok" /\ ~accepted(calls[c].nlp))
            => calls[c].reply = answerFromData(calls[c].question)

\* ------------------------------------------------------------------------
\* Properties of the filter, top-n, mean and label-profile answers
\* ------------------------------------------------------------------------
\* a triple the filter loop is said to drop: its column is no numeric column
\* or its threshold parses to no number
droppedTriple(m) ==
    \/ ~seqIncludes(NUMERIC_COLS, resolveColumn(m.raw))
    \/ IsNaN(parseFloatStr(replaceComma(m.numRaw)))

\* C11: a question with comparison patterns all of whose triples are dropped,
\* and that meets no other intent's trigger, gets the unrecognized help
\* message; a filter answer always rests on a triple that is not dropped.
C11_AllDroppedUnrecognized ==
    pc = "answered" =>
        LET ms == filterExec(asked, 1)
        IN  /\ (/\ Len(ms) > 0
                /\ \A k \in 1..Len(ms) : droppedTriple(ms[k])
                /\ \A i \in { 1, 2, 3, 4, 6 } : ~triggered(OrderOfCode[i]))
               => reply.intent = "unrecognized"
            /\ reply.intent = "filter-by-comparison"
               => \E k \in 1..Len(ms) : ~droppedTriple(ms[k])

\* the value top-n ranks a row by: the number in the column, 0 for what does
\* not parse
rankValue(r, col) ==
    IF parseFloat(Get(r, col)).t = "num" THEN parseFloat(Get(r, col)).n ELSE 0

\* the place of row i in the stable ranking by falling value
placeOf(rows, col, i) ==
    1 + Cardinality({ j \in 1..Len(rows) : rankValue(rows[j], col) > rankValue(rows[i], col) })
      + Cardinality({ j \in 1..(i - 1) : rankValue(rows[j], col) = rankValue(rows[i], col) })

\* the row at place n of that ranking
rowAtPlace(rows, col, n) == CHOOSE i \in 1..Len(rows) : placeOf(rows, col, i) = n

\* the count a question writes after 'top'
writtenCount == parseIntStr(topMatch(asked).g1)

\* C12: for a count N >= 1 and a numeric column, top-n-by-column lists
\* min(N, |D|) rows, ranked from 1, by falling value of the column (0 for what
\* does not parse), rows of equal value in dataset order; 'top 1 por size' on
\* the scenario lists the row with Size 2.0; the query leaves DATA as it was.
C12_TopNStable ==
    /\ [](  (/\ pc = "answered"
             /\ reply.intent = "top-n-by-column"
             /\ reply.tpl = "Top"
             /\ writtenCount.t = "num"
             /\ writtenCount.n >= 1)
          => LET col == reply.text[1]
                 rows == DATA.rows
                 N == writtenCount.n
             IN  /\ seqIncludes(NUMERIC_COLS, col)
                 /\ Len(reply.lines) = IF N < Len(rows) THEN N ELSE Len(rows)
                 /\ \A n \in 1..Len(reply.lines) :
                     /\ reply.lines[n].rank = n
                     /\ reply.lines[n].label = LABEL_PRETTY(rows[rowAtPlace(rows, col, n)])
                     /\ reply.lines[n].vals = << round(Get(rows[rowAtPlace(rows, col, n)], col)) >>
                 /\ \A n \in 1..(Len(reply.lines) - 1) :
                     rankValue(rows[rowAtPlace(rows, col, n)], col)
                        >= rankValue(rows[rowAtPlace(rows, col, n + 1)], col)
                 /\ (rows = ScenarioData /\ asked = "top 1 por size")
                     => reply.lines[1].vals = << Num(20) >>)
    /\ [][DATA' = DATA]_vars

\* three rows listed out of four, the first two of equal value
C12_Witness ==
    /\ pc = "answered"
    /\ asked = "top 3 por weight"
    /\ Len(DATA.rows) = 4
    /\ Len(reply.lines) = 3
    /\ rankValue(DATA.rows[rowAtPlace(DATA.rows, "Weight", 1)], "Weight")
         = rankValue(DATA.rows[rowAtPlace(DATA.rows, "Weight", 2)], "Weight")

\* a top-n question that writes no count: 'maiores', 'melhores' or a bare 'top'
noWrittenCount ==
    /\ topMatch(asked).ok
    /\ topMatch(asked).g1 \in { "maiores", "melhores", "top" }

\* C13: a top-n question without a count on a numeric column lists
\* min(5, |D|) rows.
C13_DefaultCountFive ==
    (/\ pc = "answered"
     /\ reply.intent = "top-n-by-column"
     /\ reply.tpl = "Top"
     /\ noWrittenCount)
    => Len(reply.lines) = IF DefaultTopN < Len(DATA.rows) THEN DefaultTopN ELSE Len(DATA.rows)

\* the token a mean question names its column by, and the column it resolves to
meanToken == IF pc = "answered" THEN firstWord(mMatch(asked).g2)
             ELSE mediaMatch(asked).g1
meanColumn == IF pc = "answered" THEN resolveColumn(meanToken)
              ELSE resolveColumn_p(meanToken)

\* the columns of the dataset whose lowercased name holds the first three
\* characters of the token, in dataset order
suggested(cols, token) ==
    SelectSeq(cols, LAMBDA c :
        \E i \in 1..Len(c) :
            startsAt(toLowerCase(c), SubSeq(token, 1, Min(3, Len(token))), i))

\* the three outcomes of the public renderer
threeOutcomes(columns, numeric) ==
    /\ ~seqIncludes(columns, meanColumn) =>
        /\ reply.tpl = "Coluna nao encontrada"
        /\ reply.cols = suggested(columns, meanToken)
    /\ (seqIncludes(columns, meanColumn) /\ ~seqIncludes(numeric, meanColumn)) =>
        /\ reply.tpl = "A coluna nao e numerica"
        /\ reply.cols = numeric
    /\ seqIncludes(numeric, meanColumn) =>
        /\ reply.tpl = "Media"
        /\ reply.text = << meanColumn >>

aliasesOf(c) ==
    LET table == IF pc = "answered" THEN COL_ALIASES ELSE COL_ALIASES_p
        names == { p[1] : p \in { x \in table : x[2] = c } }
    IN  names \cup { ucfirst(a) : a \in names }

\* the answer of the renderer that answered to another question
answerTo(qn) == IF pc = "answered" THEN answerFromData(qn) ELSE answerFromData_p(qn)

\* C15: a mean question on a numeric column gets the same mean whichever
\* registered alias of the column names it.
C15_AliasIndependent ==
    (/\ pc \in { "answered", "answered_p" }
     /\ reply.intent = "mean-of-column"
     /\ reply.tpl = "Media")
    => \A a \in aliasesOf(meanColumn) :
          /\ answerTo("media de " \o a).tpl = "Media"
          /\ answerTo("media de " \o a).stats = reply.stats

\* the values of column c that parse as numbers, over the given rows
parsed(rows, c) == { i \in 1..Len(rows) : ~IsNaN(parseFloat(Get(rows[i], c))) }

\* C16: an answer that would report the mean or deviation of a value set with
\* no valid number is a 'no data' message: it prints no null (or NaN) figure.
C16_EmptyMeanIsNoData ==
    pc \in { "answered", "answered_p" } =>
        /\ \A k \in DOMAIN reply.stats : reply.stats[k].t \notin { "null", "nan" }
        /\ (/\ pc = "answered"
            /\ reply.intent = "label-profile"
            /\ \E c \in { NUMERIC_COLS[k] : k \in 1..Len(NUMERIC_COLS) } :
                  parsed(rowsOfLabel(reply.text[1]), c) = {})
           => reply.tpl # "Resumo das amostras"

\* C17: a question sent while the dataset is not loaded (not yet, or after a
\* failed load) and answered by the dataset path gets the not-ready failure
\* and nothing else.
C17_NotReadySignalled ==
    (/\ pc = "sent"
     /\ DATA_p.isNull
     /\ reply.intent # "model")
    => reply = ErrorReply(NotLoadedMessage)

\* a sendMessage execution that awaits its answer
inFlight(c) == calls[c].pc \in { "awaitNlp", "sleeping" }

\* C18: at most one sendMessage execution awaits its answer at any time.
C18_OneInFlight ==
    Cardinality({ c \in Callers : inFlight(c) }) <= 1

\* DATA, COLUMNS and NUMERIC_COLS of the public renderer are of one dataset
oneSnapshot ==
    /\ COLUMNS_p = IF Len(DATA_p.rows) > 0 THEN Keys(DATA_p.rows[1]) ELSE << >>
    /\ \A k \in 1..Len(NUMERIC_COLS_p) : seqIncludes(COLUMNS_p, NUMERIC_COLS_p[k])

synthesizing(c) == calls[c].pc = "sleeping"

AnswerIntents ==
    { "count-by-label", "summary", "mean-of-column", "top-n-by-column",
      "filter-by-comparison", "label-profile", "unrecognized", "model" }

\* C21: with a dataset loaded, be it empty or of records without the label
\* column or the column asked for, either answer function returns the text of
\* one of its intents for every question: no fault reaches the caller.
C21_AlwaysAText ==
    (pc \in { "answered", "answered_p" } /\ ~DATA.isNull /\ ~DATA_p.isNull)
        => /\ reply.intent \in AnswerIntents
           /\ reply # Fault
           /\ reply.tpl # "none"

\* a row with neither label nor Size is listed by top-n
C21_Witness ==
    /\ pc = "answered"
    /\ asked = "top 6 por tamanho"
    /\ reply.tpl = "Top"
    /\ \E n \in 1..Len(reply.lines) :
          /\ reply.lines[n].label.q = Str("")
          /\ reply.lines[n].vals = << Undefined >>

\* C22: once a model has been loaded or trained, handling a question loads or
\* trains none again: each module loads or trains at most once.
C22_LoadedOnce ==
    /\ loads.predict <= 1
    /\ loads.index + trainings <= 1

\* C27: every processText call classifies with a manager that is loaded or
\* trained, and manager.train() is called at most once.
C27_ManagerReady ==
    /\ \A c \in Callers : texts[c].pc = "processing" => texts[c].m \in { "loaded", "trained" }
    /\ trainings <= 1

\* the sampled values of column c, by position in the n leading rows:
\* renderer.js samples the values that are there (not null, not undefined),
\* the public renderer the value of every leading row
sampled(rows, c, n) ==
    { i \in 1..Min(n, Len(rows)) : Get(rows[i], c).t \notin { "null", "undef" } }
sampled_p(rows, n) == 1..Min(n, Len(rows))

\* the positions of a sample whose value reads as a number
numericIn(rows, c, sample) == { i \in sample : ~IsNaN(parseFloat(Get(rows[i], c))) }

\* at least 60% of the values of a sample read as numbers
sixtyPercent(rows, c, sample) ==
    /\ sample # {}
    /\ 10 * Cardinality(numericIn(rows, c, sample)) >= 6 * Cardinality(sample)

\* C23: a column is in the numeric-column set exactly when at least 60% of its
\* sampled values read as numbers.
C23_SixtyPercentRule ==
    /\ \A k \in 1..Len(COLUMNS) :
          seqIncludes(NUMERIC_COLS, COLUMNS[k])
            <=> sixtyPercent(DATA.rows, COLUMNS[k], sampled(DATA.rows, COLUMNS[k], SampleRows))
    /\ \A k \in 1..Len(COLUMNS_p) :
          seqIncludes(NUMERIC_COLS_p, COLUMNS_p[k])
            <=> sixtyPercent(DATA_p.rows, COLUMNS_p[k], sampled_p(DATA_p.rows, SampleRows_p))

\* C24: in every execution of the handler the scripts started are the leading
\* ones of preprocess, train, postprocess, bundle, in that order; each but the
\* one running has closed, all before the last with code 0; the handler
\* returns ok: false exactly when the last script started closed with another
\* code, and ok: true only when every script started closed with code 0,
\* postprocess among them.
C24_StagesInOrder ==
    \A r \in Runs :
        LET run == runs[r]
            n == Len(run.started)
        IN  /\ n <= Len(Scripts)
            /\ \A i \in 1..n : run.started[i] = Scripts[i]
            /\ Len(run.codes) = IF run.pc = "running" THEN n - 1 ELSE n
            /\ \A i \in 1..(n - 1) : run.codes[i] = 0
            /\ run.result = "failed" <=> (run.pc = "returned" /\ run.codes[n] # 0)
            /\ run.result = "ok" <=> (/\ run.pc = "returned"
                                      /\ n >= 3
                                      /\ \A i \in 1..n : run.codes[i] = 0)

\* the training script fails: postprocess is never started, ok: false
C24_Witness ==
    \E r \in Runs :
        /\ runs[r].started = << "run_preprocess", "run_train" >>
        /\ runs[r].codes = << 0, 1 >>
        /\ runs[r].result = "failed"

\* C26: at most one preprocessing.py child is running at any time, whatever
\* the callers of ensurePreprocessedData and the order of their steps.
C26_OnePreprocess == Cardinality(pythons) <= 1

\* C25: every non-empty question sent gets its bot message, the answer or an
\* 'Erro:' text, and exactly one: none while it is awaited, one from the step
\* that ends the call, unchanged afterwards; whenever no question is awaited
\* the typing indicator is gone and the send button is enabled. This holds
\* too when the matcher's call fails or the dataset path throws.
C25_EveryQuestionAnswered ==
    /\ \A c \in Callers : inFlight(c) ~> (calls[c].pc = "done")
    /\ [](\A c \in Callers :
            /\ inFlight(c) => calls[c].reply = NoReply
            /\ calls[c].pc = "done" => calls[c].reply # NoReply)
    /\ [][\A c \in Callers :
            (calls[c].pc = "done" /\ calls'[c].pc = "done")
                => calls'[c].reply = calls[c].reply]_vars
    /\ []((\A c \in Callers : ~inFlight(c)) => (~typing /\ ~sendDisabled))

\* both failures have happened and been shown as errors, nothing is awaited
C25_Witness ==
    /\ calls["click"].pc = "done" /\ calls["click"].path = "nlpError"
    /\ calls["click"].reply.intent = "error"
    /\ calls["enter"].pc = "done" /\ calls["enter"].path = "notReady"
    /\ calls["enter"].reply = ErrorReply(NotLoadedMessage)
    /\ ~typing /\ ~sendDisabled

\* window.chatAPI.ask has been called for the question of entry point c
datasetPathInvoked(c) == calls[c].path \in { "keyword", "notReady" }

\* C28: when the matcher's call throws or reports ok: false, the question
\* ends with one 'Erro:' message and window.chatAPI.ask is not called for it;
\* window.chatAPI.ask is called only after a call that succeeded with a
\* result that is not accepted.
C28_ErrorSkipsDataset ==
    \A c \in Callers :
        /\ (calls[c].pc = "done" /\ calls[c].nlp.kind # "ok")
            => /\ calls[c].path = "nlpError"
               /\ calls[c].reply = ErrorReply("NLP error")
        /\ calls[c].nlp.kind \in { "throw", "notOk" } => ~datasetPathInvoked(c)
        /\ datasetPathInvoked(c)
            => (calls[c].nlp.kind = "ok" /\ ~matcherAccepted(calls[c].nlp))

\* with the dataset loaded, one question ended on ok: false and another went
\* on to the dataset after a successful call with a low score
C28_Witness ==
    /\ ~DATA.isNull
    /\ calls["click"].pc = "done" /\ calls["click"].nlp.kind = "notOk"
    /\ calls["click"].reply.intent = "error"
    /\ calls["enter"].pc = "sleeping" /\ calls["enter"].nlp.kind = "ok"
    /\ calls["enter"].nlp.score = 0

====
